---- MODULE Spec2Model ----
(***************************************************************************)
(* The reservation wizard (component Booking) of the hotel management      *)
(* application: the form state held in the component, the asynchronous     *)
(* load of hotels.json / rooms.json / bookings.json, the event handlers    *)
(* of the form and handleConfirmBooking.                                   *)
(*                                                                         *)
(* Encoding.  A date string 'yyyy-mm-dd' of <input type="date"> is the     *)
(* day of January 2024 it names (15 is '2024-01-15'); the empty string of  *)
(* a cleared date input is EmptyDate.  The order of the integers is the    *)
(* order of the strings.  The text of a number input is <<>> when it does  *)
(* not parse (parseFloat gives NaN) and <<n>> when it parses to n.         *)
(* Amounts are integers.  Date.now() is the variable now, in milliseconds  *)
(* since the page was opened.                                              *)
(***************************************************************************)
EXTENDS Integers, Sequences, FiniteSets, TLC

\* ------------------------------------------------------------------ bounds
\* Number of form events (edits, clicks) of one run.
MaxEdits == 2
\* Length the bookings list may reach.
MaxBookings == 2
\* Milliseconds that may pass between the first and the last confirm.
MaxClock == 1
\* Value the failedLoginAttempts counter may reach.
MaxFailedAttempts == 6
\* Steps of 5 minutes the server clock may take.
MaxAuthTicks == 4
\* Number of events (filter edits, clicks) on the Reservations page.
MaxResEdits == 2
\* Number of events on the list of the hotels page (add, delete, select).
MaxHotelEdits == 3
\* Milliseconds that may pass between the first and the last added hotel.
MaxHotelClock == 1
\* Password reset tokens created in one run.
MaxTokens == 2
\* Steps of the clock of the password reset.
MaxResetTicks == 1

\* ------------------------------------------------------- program constants
EmptyDate == 0
InitNumberOfRooms == 1
InitArrival == 15
InitDeparture == 20
InitNights == 5
InitRoomRate == 250
InitAmount == 1250
InitPaidToday == 500
InitRemaining == 750
InitCompletion == 25
MaxRoomOptions == 10
MsPerDay == 1000 * 3600 * 24

\* --------------------------------------------------- the fetched documents
\* /hotels.json
HotelsFile ==
  << [id |-> "hotel-1", name |-> "Grand Palace", code |-> "GP"],
     [id |-> "hotel-2", name |-> "Sea View", code |-> "SV"] >>

Room(id, hotelId, rate, status, availableCount) ==
  [id |-> id, hotelId |-> hotelId, rate |-> rate, status |-> status,
   availableCount |-> availableCount]

\* /rooms.json: the documents the fetch may deliver.  The first holds the
\* default room 'room-1' with more than ten rooms to sell, a room with three,
\* a room of the other hotel and an occupied room; in the second the default
\* room is sold out; the third does not hold the default room.
RoomsFiles ==
  { << Room("room-1", "hotel-1", 250, "available", 12),
       Room("room-2", "hotel-1", 100, "available", 3),
       Room("room-3", "hotel-2", 400, "available", 2),
       Room("room-4", "hotel-1", 300, "occupied", 0) >>,
    << Room("room-1", "hotel-1", 250, "occupied", 0),
       Room("room-2", "hotel-1", 100, "available", 3) >>,
    << Room("room-3", "hotel-2", 400, "available", 2) >> }

InitGuest ==
  [fullName |-> "Ahmed Mohammed Al-Rashid",
   email    |-> "ahmed.alrashid@email.com",
   arrival  |-> InitArrival,
   departure |-> InitDeparture,
   roomRate |-> InitRoomRate,
   resId    |-> "RES-2024-001"]

InitPayment ==
  [method |-> "credit",
   amount |-> InitAmount,
   date   |-> InitArrival,
   startDate |-> InitArrival,
   completionDate |-> InitCompletion,
   amountPaidToday |-> InitPaidToday,
   remainingBalance |-> InitRemaining]

\* /bookings.json: one booking made earlier (the list stays empty when a
\* fetch fails).
LoadedBooking ==
  [id |-> <<"file", 1>>,
   resId |-> <<"RES-2023-777">>,
   guest |-> [InitGuest EXCEPT !.fullName = "Sara Haddad", !.resId = "RES-2023-777",
                               !.roomRate = 400],
   room |-> Room("room-3", "hotel-2", 400, "available", 2),
   numberOfRooms |-> 1,
   payment |-> [InitPayment EXCEPT !.method = "cash", !.amount = 400,
                                   !.amountPaidToday = 0, !.remainingBalance = 0],
   status |-> "pending",
   createdAt |-> <<"file", 1>>]

BookingsFiles == { << LoadedBooking >> }

\* A booking of /bookings.json with the fields the Reservations page reads.
\* The strings the search looks into are the sequences of their characters.
ResBooking(id, resId, fullName, telephone, arrival, departure, hotelId, amount, remainingBalance, status) ==
  [id |-> id, resId |-> resId,
   guest |-> [fullName |-> fullName, telephone |-> telephone,
              arrival |-> arrival, departure |-> departure],
   room |-> [hotelId |-> hotelId],
   payment |-> [amount |-> amount, remainingBalance |-> remainingBalance],
   status |-> status]

\* /bookings.json as the Reservations page gets it: eleven bookings, one more
\* than a page holds, in no order, with arrivals, names and amounts that
\* differ from booking to booking.
ReservationsFile ==
  <<
     ResBooking("b1", << "R", "1", "0", "1" >>, << "A", "l", "i" >>, << "0", "5", "0", "1" >>,
                4, 6, "hotel-1", 200, 0, "pending"),
     ResBooking("b2", << "R", "1", "0", "2" >>, << "S", "a", "r", "a" >>, << "0", "5", "0", "2" >>,
                9, 11, "hotel-1", 300, 150, "confirmed"),
     ResBooking("b3", << "R", "1", "0", "3" >>, << "O", "m", "a", "r" >>, << "0", "5", "0", "3" >>,
                1, 3, "hotel-2", 500, 0, "pending"),
     ResBooking("b4", << "R", "1", "0", "4" >>, << "L", "i", "n", "a" >>, << "0", "5", "0", "4" >>,
                7, 9, "hotel-1", 600, 0, "checked-in"),
     ResBooking("b5", << "R", "1", "0", "5" >>, << "A", "d", "a", "m" >>, << "0", "5", "0", "5" >>,
                11, 13, "hotel-1", 800, 0, "confirmed"),
     ResBooking("b6", << "R", "1", "0", "6" >>, << "N", "o", "o", "r" >>, << "0", "5", "0", "6" >>,
                3, 5, "hotel-2", 900, 450, "pending"),
     ResBooking("b7", << "R", "1", "0", "7" >>, << "Z", "a", "i", "d" >>, << "0", "5", "0", "7" >>,
                6, 8, "hotel-1", 1100, 0, "cancelled"),
     ResBooking("b8", << "R", "1", "0", "8" >>, << "H", "a", "n", "a" >>, << "0", "5", "0", "8" >>,
                10, 12, "hotel-1", 1200, 0, "pending"),
     ResBooking("b9", << "R", "1", "0", "9" >>, << "R", "a", "m", "i" >>, << "0", "5", "0", "9" >>,
                2, 4, "hotel-2", 1400, 0, "confirmed"),
     ResBooking("b10", << "R", "1", "1", "0" >>, << "M", "a", "y", "a" >>, << "0", "5", "1", "0" >>,
                8, 10, "hotel-1", 1500, 0, "checked-out"),
     ResBooking("b11", << "R", "1", "1", "1" >>, << "S", "a", "m", "i" >>, << "0", "5", "1", "1" >>,
                5, 7, "hotel-1", 1700, 0, "pending")
  >>

ResBookingsFiles == { ReservationsFile }

\* The hotels the hotels page starts with.  name, code and altName are the
\* sequences of their characters, an Arabic letter written by its name; an
\* id is << text >> as written or << "now", t >> for Date.now() = t.
InitHotels ==
  <<
     [id |-> << "1" >>,
      name |-> << "G", "r", "a", "n", "d", " ", "P", "a", "l", "a", "c", "e",
                " ", "H", "o", "t", "e", "l" >>,
      code |-> << "G", "P", "H", "0", "0", "1" >>,
      altName |-> << "FEH", "NOON", "DAL", "QAF", " ", "ALEF", "LAM", "QAF",
                "SAD", "REH", " ", "ALEF", "LAM", "KAF", "BEH", "YEH", "REH" >>,
      createdAt |-> "2024-01-15"],
     [id |-> << "2" >>,
      name |-> << "O", "c", "e", "a", "n", " ", "V", "i", "e", "w", " ", "R",
                "e", "s", "o", "r", "t" >>,
      code |-> << "O", "V", "R", "0", "0", "2" >>,
      altName |-> << "MEEM", "NOON", "TEH", "JEEM", "AIN", " ",
                "ALEF_WITH_HAMZA_BELOW", "TAH", "LAM", "ALEF", "LAM",
                "TEH_MARBUTA", " ", "ALEF", "LAM", "MEEM", "HAH", "YEH",
                "TAH" >>,
      createdAt |-> "2024-01-20"],
     [id |-> << "3" >>,
      name |-> << "M", "o", "u", "n", "t", "a", "i", "n", " ", "L", "o", "d",
                "g", "e" >>,
      code |-> << "M", "L", "0", "0", "3" >>,
      altName |-> << "NOON", "ZAIN", "LAM", " ", "ALEF", "LAM", "JEEM", "BEH",
                "LAM" >>,
      createdAt |-> "2024-01-25"],
     [id |-> << "4" >>,
      name |-> << "C", "i", "t", "y", " ", "C", "e", "n", "t", "e", "r", " ",
                "H", "o", "t", "e", "l" >>,
      code |-> << "C", "C", "H", "0", "0", "4" >>,
      altName |-> << "FEH", "NOON", "DAL", "QAF", " ", "WAW", "SEEN", "TAH",
                " ", "ALEF", "LAM", "MEEM", "DAL", "YEH", "NOON",
                "TEH_MARBUTA" >>,
      createdAt |-> "2024-01-30"]
  >>

\* ------------------------------------------------------------ user inputs
DateInputs == {EmptyDate, InitArrival, InitArrival + 1}
PaymentDateInputs == {InitDeparture}
PaymentDateFields == {"date", "startDate", "completionDate"}
RoomCountInputs == {1, 2, 10}
NumberTexts == { <<300>> }
AmountTexts == { <<2500>>, <<-5>> }
PaidTexts == { << >>, <<500>>, <<3000>> }
GuestTextFields == {"fullName", "resId"}
TextInputs == {"", "Sara Haddad"}
\* What is typed into the search box: nothing, part of two names in upper
\* case, part of a telephone number.
SearchInputs == { << >>, << "S", "A" >>, << "5", "1" >> }
StatusOptions == {"", "confirmed", "cancelled"}
RangeStartInputs == {EmptyDate, 6}
RangeEndInputs == {EmptyDate, 8}
SortOptions ==
  { [field |-> "date", order |-> "desc"], [field |-> "name", order |-> "asc"],
    [field |-> "amount", order |-> "desc"] }
\* What is typed on the hotels page: the fields of a new hotel, a name
\* filter in upper case and a code filter.
HotelNameInputs == { << >>, << "I", "n", "n" >> }
HotelCodeInputs == { << >>, << "I", "N", "5" >> }
AltHotelNameInputs == { << >>, << "NOON", "ZAIN", "LAM" >> }
NameFilterInputs == { << >>, << "H", "O", "T", "E", "L" >> }
CodeFilterInputs == { << >>, << "0", "0", "2" >> }
Methods == {"cash", "credit", "visa"}

\* ------------------------------------------------------------------ state
VARIABLES
  loading, pc,                  \* loading flag; position of fetchData
  hotels, rooms, bookings,      \* the loaded lists and the bookings list
  selectedHotelId, selectedRoomId, numberOfRooms,
  arrivalDate, departureDate, numberOfNights,
  guestData, paymentData,
  now,                          \* Date.now()
  edits,                        \* form events so far
  loggedError,                  \* the fetch whose error console.error logged
  \* the Reservations page
  resLoading, resPc, resHotels, resRooms, resBookings, resLoggedError,
  \* the Guests page
  guestsLoading, guestsPc, guestsHotels, guestsBookings, guests,
  guestsLoggedError,
  \* the credentials login: the security fields of each user record, the
  \* server clock (ms), the value the last authorize returned and, for each
  \* user, the failed password checks in a row
  failedLoginAttempts, lockedUntil, isActive, authNow, lastResult, failedChecks,
  \* the Reservations page once loaded: filters, selection, view, sort, page,
  \* the text of the last alert and the events so far
  statusFilter, hotelFilter, dateRangeFilter, searchQuery, selectedBookings,
  viewMode, sortBy, sortOrder, currentPage, resAlert, resEdits,
  \* the hotels page: the list, the selection, the filters, the fields of
  \* the add form, Date.now() and the list events so far
  hotelList, selectedHotels, nameFilter, codeFilter, hotelName, hotelCode,
  altHotelName, hotelNow, hotelEdits,
  \* the calls of authorize under way: for each request the await it is at
  \* and the user row it has read
  calls,
  \* the password reset: the verification_tokens table, the password column
  \* of the users, the PUT requests under way, the server clock, the tokens
  \* created so far, the last response of PUT and, for every token id, the
  \* committed password changes made with it
  verificationTokens, userPassword, puts, resetNow, tokensCreated, putResponse,
  passwordResets,
  \* the middleware: the request it was last called with and its response
  request, response

resVars == << resLoading, resPc, resHotels, resRooms, resBookings, resLoggedError >>

guestsVars == << guestsLoading, guestsPc, guestsHotels, guestsBookings, guests,
                 guestsLoggedError >>

authVars == << failedLoginAttempts, lockedUntil, isActive, authNow, lastResult,
               failedChecks, calls >>

resUiVars == << statusFilter, hotelFilter, dateRangeFilter, searchQuery,
                selectedBookings, viewMode, sortBy, sortOrder, currentPage,
                resAlert, resEdits >>

hotelPageVars == << hotelList, selectedHotels, nameFilter, codeFilter, hotelName,
                    hotelCode, altHotelName, hotelNow, hotelEdits >>

resetVars == << verificationTokens, userPassword, puts, resetNow, tokensCreated,
                putResponse, passwordResets >>

middlewareVars == << request, response >>

bookingVars == << loading, pc, hotels, rooms, bookings, selectedHotelId,
                  selectedRoomId, numberOfRooms, arrivalDate, departureDate,
                  numberOfNights, guestData, paymentData, now, edits, loggedError >>

vars == << bookingVars, resVars, guestsVars, authVars, resUiVars, hotelPageVars, resetVars,
            middlewareVars >>

\* What no step of the Booking page touches.
elsewhere == << resVars, guestsVars, authVars, resUiVars, hotelPageVars, resetVars,
                 middlewareVars >>

formVars == << selectedHotelId, selectedRoomId, numberOfRooms, arrivalDate,
               departureDate, numberOfNights, guestData, paymentData >>

\* ---------------------------------------------------------------- helpers
Min(a, b) == IF a < b THEN a ELSE b

\* Math.ceil(a / b) for b > 0.
CeilDiv(a, b) == -((-a) \div b)

\* new Date(d).getTime(): milliseconds of the UTC midnight of the day.
GetTime(d) == d * MsPerDay

\* parseFloat(e.target.value) || 0
ParseFloatOrZero(text) == IF text = << >> THEN 0 ELSE text[1]

\* calculateNights without the clamp of a non-positive difference.
calculateNightsNoClamp(arrival, departure, prev) ==
  IF arrival # EmptyDate /\ departure # EmptyDate
    THEN CeilDiv(GetTime(departure) - GetTime(arrival), MsPerDay)
    ELSE prev

\* calculateNights(arrival, departure): the value numberOfNights has after
\* the call, prev being the value before it.
calculateNights(arrival, departure, prev) ==
  IF arrival # EmptyDate /\ departure # EmptyDate
    THEN LET timeDiff == GetTime(departure) - GetTime(arrival)
             nights == CeilDiv(timeDiff, MsPerDay)
         IN  IF nights > 0 THEN nights ELSE 0
    ELSE prev

\* rooms.filter(room => room.hotelId === selectedHotelId), as indices.
getAvailableRooms ==
  { i \in 1..Len(rooms) : rooms[i].hotelId = selectedHotelId }

\* rooms.find(room => room.id === selectedRoomId): the index of the first
\* room with that id, 0 when find returns undefined.
getSelectedRoom ==
  LET hits == { i \in 1..Len(rooms) : rooms[i].id = selectedRoomId }
  IN  IF hits = {} THEN 0 ELSE CHOOSE i \in hits : \A j \in hits : i <= j

\* getSelectedRoom()?.availableCount || 0
SelectedAvailableCount ==
  IF getSelectedRoom = 0 THEN 0 ELSE rooms[getSelectedRoom].availableCount

\* room?.rate || 0
SelectedRate ==
  IF getSelectedRoom = 0 THEN 0 ELSE rooms[getSelectedRoom].rate

\* room.status === 'available' && (room.availableCount || 0) > 0
isSelectable(room) == room.status = "available" /\ room.availableCount > 0

\* The options without the cap by the availability of the room.
RoomCountOptionsUncapped == 1..MaxRoomOptions

\* The options of the number-of-rooms select.
RoomCountOptions == 1..Min(MaxRoomOptions, SelectedAvailableCount)

\* The total without the room count.
computeTotalPerRoom(rate, nights, roomCount) == rate * nights

\* (room?.rate || 0) * numberOfNights * numberOfRooms
computeTotal(rate, nights, roomCount) == rate * nights * roomCount

\* The total shown in the room details panel and in the review panel.
RoomDetailsTotal == computeTotal(SelectedRate, numberOfNights, numberOfRooms)
ReviewTotal == computeTotal(SelectedRate, numberOfNights, numberOfRooms)

\* ------------------------------------------------------------------- Init
\* The Reservations page after construction.
InitReservations ==
  /\ resLoading = TRUE
  /\ resPc = "hotels"
  /\ resHotels = << >>
  /\ resRooms = << >>
  /\ resBookings = << >>
  /\ resLoggedError = "none"
  /\ statusFilter = ""
  /\ hotelFilter = ""
  /\ dateRangeFilter = [start |-> EmptyDate, end |-> EmptyDate]
  /\ searchQuery = << >>
  /\ selectedBookings = << >>
  /\ viewMode = "table"
  /\ sortBy = "date"
  /\ sortOrder = "desc"
  /\ currentPage = 1
  /\ resAlert = << >>
  /\ resEdits = 0

\* The Guests page after construction.
InitGuests ==
  /\ guestsLoading = TRUE
  /\ guestsPc = "hotels"
  /\ guestsHotels = << >>
  /\ guestsBookings = << >>
  /\ guests = << >>
  /\ guestsLoggedError = "none"

\* The hotels page after construction.
InitHotelPage ==
  /\ hotelList = InitHotels
  /\ selectedHotels = << >>
  /\ nameFilter = << >>
  /\ codeFilter = << >>
  /\ hotelName = << >>
  /\ hotelCode = << >>
  /\ altHotelName = << >>
  /\ hotelNow = 0
  /\ hotelEdits = 0

\* An optional DateTime: << >> is null, << t >> the time t (ms).
NoDate == << >>

\* The users of the database, by email.
Accounts == {"test@example.com", "admin@example.com"}

\* Users as created: the defaults of the security fields.
\* The requests of one route that may be under way together.
Requests == {"r1", "r2"}

\* A request with no call under way.
NoCall == << >>

\* The middleware before a request.
InitMiddleware ==
  /\ request = << >>
  /\ response = << >>

\* The row of the table a sign-up has left: a token to verify an email.
SignupToken ==
  [id |-> 0, identifier |-> "test@example.com", token |-> << "uuid", 0 >>,
   expires |-> 60 * 60 * 1000, type |-> "EMAIL_VERIFICATION"]

\* hashPassword: the hash is not the password.
hashPassword(password) == << "argon2id", password >>

\* The password reset before any request.
InitReset ==
  /\ verificationTokens = { SignupToken }
  /\ userPassword = [u \in Accounts |-> hashPassword("old")]
  /\ puts = [r \in Requests |-> NoCall]
  /\ resetNow = 0
  /\ tokensCreated = 0
  /\ putResponse = << >>
  /\ passwordResets = [id \in 0..(MaxTokens + 1) |-> 0]

InitUser ==
  /\ failedLoginAttempts = [u \in Accounts |-> 0]
  /\ lockedUntil = [u \in Accounts |-> NoDate]
  /\ authNow = 0
  /\ lastResult = "none"
  /\ failedChecks = [u \in Accounts |-> 0]
  /\ calls = [r \in Requests |-> NoCall]

InitBooking ==
  /\ loading = TRUE
  /\ pc = "hotels"
  /\ hotels = << >>
  /\ rooms = << >>
  /\ bookings = << >>
  /\ selectedHotelId = "hotel-1"
  /\ selectedRoomId = "room-1"
  /\ numberOfRooms = InitNumberOfRooms
  /\ arrivalDate = InitArrival
  /\ departureDate = InitDeparture
  /\ numberOfNights = InitNights
  /\ guestData = InitGuest
  /\ paymentData = InitPayment
  /\ now = 0
  /\ edits = 0
  /\ loggedError = "none"

\* Every page as constructed and the users active.
Init ==
  /\ InitBooking
  /\ InitReservations
  /\ InitGuests
  /\ InitUser
  /\ isActive = [u \in Accounts |-> TRUE]
  /\ InitHotelPage
  /\ InitReset
  /\ InitMiddleware

\* -------------------------------------------------------------- fetchData
FetchHotelsOk ==
  /\ pc = "hotels"
  /\ hotels' = HotelsFile
  /\ pc' = "rooms"
  /\ UNCHANGED << loading, rooms, bookings, formVars, now, edits, loggedError, elsewhere >>

FetchRoomsOk ==
  /\ pc = "rooms"
  /\ \E file \in RoomsFiles : rooms' = file
  /\ pc' = "bookings"
  /\ UNCHANGED << loading, hotels, bookings, formVars, now, edits, loggedError, elsewhere >>

FetchBookingsOk ==
  /\ pc = "bookings"
  /\ \E file \in BookingsFiles : bookings' = file
  /\ loading' = FALSE
  /\ pc' = "done"
  /\ UNCHANGED << hotels, rooms, formVars, now, edits, loggedError, elsewhere >>

\* A rejected fetch with the finally block left out: loading stays.
FetchFailKeepsLoading ==
  /\ pc \in {"hotels", "rooms", "bookings"}
  /\ loggedError' = pc
  /\ pc' = "done"
  /\ UNCHANGED << loading, hotels, rooms, bookings, formVars, now, edits, elsewhere >>

\* A fetch or the parse of its body rejects: catch logs, finally runs.
FetchFail ==
  /\ pc \in {"hotels", "rooms", "bookings"}
  /\ loggedError' = pc
  /\ loading' = FALSE
  /\ pc' = "done"
  /\ UNCHANGED << hotels, rooms, bookings, formVars, now, edits, elsewhere >>

\* ------------------------------------------------------------ form events
\* Every form event needs the form rendered (the loading gate).  An event
\* that leaves the state as it is (a click on the selected or on an occupied
\* room, a text that parses to the stored number) is a stuttering step.
FormEvent ==
  /\ ~loading
  /\ edits < MaxEdits
  /\ edits' = edits + 1
  /\ UNCHANGED << loading, pc, hotels, rooms, bookings, now, loggedError, elsewhere >>

HotelChange ==
  /\ FormEvent
  /\ \E h \in {""} \cup { hotels[i].id : i \in 1..Len(hotels) } :
       /\ h # selectedHotelId
       /\ selectedHotelId' = h
  /\ UNCHANGED << selectedRoomId, numberOfRooms, arrivalDate, departureDate,
                  numberOfNights, guestData, paymentData >>

\* The room click with the room count clamped to the clicked room.
RoomClickReclamp ==
  /\ FormEvent
  /\ selectedHotelId # ""
  /\ \E i \in getAvailableRooms :
       /\ isSelectable(rooms[i])
       /\ rooms[i].id # selectedRoomId
       /\ selectedRoomId' = rooms[i].id
       /\ numberOfRooms' = Min(numberOfRooms, rooms[i].availableCount)
  /\ UNCHANGED << selectedHotelId, arrivalDate, departureDate,
                  numberOfNights, guestData, paymentData >>

RoomClick ==
  /\ FormEvent
  /\ selectedHotelId # ""
  /\ \E i \in getAvailableRooms :
       /\ selectedRoomId' = IF isSelectable(rooms[i]) THEN rooms[i].id
                                                      ELSE selectedRoomId
       /\ selectedRoomId' # selectedRoomId
  /\ UNCHANGED << selectedHotelId, numberOfRooms, arrivalDate, departureDate,
                  numberOfNights, guestData, paymentData >>

NumberOfRoomsChange ==
  /\ FormEvent
  /\ selectedRoomId # ""
  /\ \E num \in RoomCountInputs \cap RoomCountOptions :
       /\ num # numberOfRooms
       /\ numberOfRooms' = num
  /\ UNCHANGED << selectedHotelId, selectedRoomId, arrivalDate, departureDate,
                  numberOfNights, guestData, paymentData >>

ArrivalChange ==
  /\ FormEvent
  /\ \E v \in DateInputs :
       /\ v # arrivalDate
       /\ arrivalDate' = v
       /\ numberOfNights' = calculateNights(v, departureDate, numberOfNights)
  /\ UNCHANGED << selectedHotelId, selectedRoomId, numberOfRooms, departureDate,
                  guestData, paymentData >>

DepartureChange ==
  /\ FormEvent
  /\ \E v \in DateInputs :
       /\ v # departureDate
       /\ departureDate' = v
       /\ numberOfNights' = calculateNights(arrivalDate, v, numberOfNights)
  /\ UNCHANGED << selectedHotelId, selectedRoomId, numberOfRooms, arrivalDate,
                  guestData, paymentData >>

AlternativePriceChange ==
  /\ FormEvent
  /\ \E text \in NumberTexts :
       /\ ParseFloatOrZero(text) # guestData.roomRate
       /\ guestData' = [guestData EXCEPT !.roomRate = ParseFloatOrZero(text)]
  /\ UNCHANGED << selectedHotelId, selectedRoomId, numberOfRooms, arrivalDate,
                  departureDate, numberOfNights, paymentData >>

GuestTextChange ==
  /\ FormEvent
  /\ \E f \in GuestTextFields, v \in TextInputs :
       /\ v # guestData[f]
       /\ guestData' = [guestData EXCEPT ![f] = v]
  /\ UNCHANGED << selectedHotelId, selectedRoomId, numberOfRooms, arrivalDate,
                  departureDate, numberOfNights, paymentData >>

\* The method click gated by the guest step: enabled once the guest data
\* were edited.
PaymentMethodClickGated ==
  /\ FormEvent
  /\ guestData # InitGuest
  /\ \E m \in Methods :
       /\ m # paymentData.method
       /\ paymentData' = [paymentData EXCEPT !.method = m]
  /\ UNCHANGED << selectedHotelId, selectedRoomId, numberOfRooms, arrivalDate,
                  departureDate, numberOfNights, guestData >>

PaymentMethodClick ==
  /\ FormEvent
  /\ \E m \in Methods :
       /\ m # paymentData.method
       /\ paymentData' = [paymentData EXCEPT !.method = m]
  /\ UNCHANGED << selectedHotelId, selectedRoomId, numberOfRooms, arrivalDate,
                  departureDate, numberOfNights, guestData >>

\* The payment date, and for the credit method the start and the completion
\* date of the payment.
PaymentDateChange ==
  /\ FormEvent
  /\ \E f \in PaymentDateFields, v \in PaymentDateInputs :
       /\ f # "date" => paymentData.method = "credit"
       /\ v # paymentData[f]
       /\ paymentData' = [paymentData EXCEPT ![f] = v]
  /\ UNCHANGED << selectedHotelId, selectedRoomId, numberOfRooms, arrivalDate,
                  departureDate, numberOfNights, guestData >>

\* The amount handler with the balance recomputed from the new amount.
PaymentAmountChangeRecompute ==
  /\ FormEvent
  /\ \E text \in AmountTexts :
       LET amount == ParseFloatOrZero(text)
           remaining == amount - paymentData.amountPaidToday
       IN  /\ amount # paymentData.amount
           /\ paymentData' = [paymentData EXCEPT
                                 !.amount = amount,
                                 !.remainingBalance =
                                    IF remaining > 0 THEN remaining ELSE 0]
  /\ UNCHANGED << selectedHotelId, selectedRoomId, numberOfRooms, arrivalDate,
                  departureDate, numberOfNights, guestData >>

PaymentAmountChange ==
  /\ FormEvent
  /\ \E text \in AmountTexts :
       /\ ParseFloatOrZero(text) # paymentData.amount
       /\ paymentData' = [paymentData EXCEPT !.amount = ParseFloatOrZero(text)]
  /\ UNCHANGED << selectedHotelId, selectedRoomId, numberOfRooms, arrivalDate,
                  departureDate, numberOfNights, guestData >>

\* The balance without the floor at zero.
RemainingAfterNoFloor(amount, paidToday) == amount - paidToday

\* The new remainingBalance of the 'amount paid today' handler.
RemainingAfter(amount, paidToday) ==
  LET remaining == amount - paidToday
  IN  IF remaining > 0 THEN remaining ELSE 0

\* The input is rendered for the credit method only.
AmountPaidTodayChange ==
  /\ FormEvent
  /\ paymentData.method = "credit"
  /\ \E text \in PaidTexts :
       LET paidToday == ParseFloatOrZero(text)
       IN  paymentData' = [paymentData EXCEPT
                             !.amountPaidToday = paidToday,
                             !.remainingBalance =
                                RemainingAfter(paymentData.amount, paidToday)]
  /\ UNCHANGED << selectedHotelId, selectedRoomId, numberOfRooms, arrivalDate,
                  departureDate, numberOfNights, guestData >>

\* ---------------------------------------------------- handleConfirmBooking
\* Date.now() read at the millisecond t.  The reads of one call of the
\* handler (id, resId, createdAt) fall into the same millisecond.
\* guestData.resId || `RES${Date.now()}`
NewResId(t) == IF guestData.resId # "" THEN << guestData.resId >> ELSE << "RES", t >>

\* Date.now().toString()
NewId(t) == << "now", t >>

NewGuest(selectedRoom) ==
  [guestData EXCEPT !.arrival = arrivalDate,
                    !.departure = departureDate,
                    !.roomRate = selectedRoom.rate]

NewBooking(selectedRoom, t) ==
  [id |-> NewId(t),
   resId |-> NewResId(t),
   guest |-> NewGuest(selectedRoom),
   room |-> selectedRoom,
   numberOfRooms |-> numberOfRooms,
   payment |-> paymentData,
   status |-> "confirmed",
   createdAt |-> << "now", t >>]

\* The new booking put in front of the list.
PrependBooking(list, booking) == << booking >> \o list

\* setBookings([...bookings, newBooking])
AppendBooking(list, booking) == Append(list, booking)

\* Confirm with a validation of the required fields and of the amount.
handleConfirmBookingValidated ==
  /\ ~loading
  /\ Len(bookings) < MaxBookings
  /\ IF getSelectedRoom # 0 /\ guestData.fullName # "" /\ paymentData.amount > 0
       THEN \E t \in now..MaxClock :
              /\ now' = t
              /\ bookings' = AppendBooking(bookings,
                                           NewBooking(rooms[getSelectedRoom], t))
       ELSE UNCHANGED << bookings, now >>
  /\ UNCHANGED << loading, pc, hotels, rooms, formVars, edits, loggedError, elsewhere >>

\* Confirm that takes the booked rooms from the availability of the room.
handleConfirmBookingDecrement ==
  /\ ~loading
  /\ Len(bookings) < MaxBookings
  /\ IF getSelectedRoom # 0
       THEN \E t \in now..MaxClock :
              /\ now' = t
              /\ bookings' = AppendBooking(bookings,
                                           NewBooking(rooms[getSelectedRoom], t))
              /\ rooms' = [rooms EXCEPT ![getSelectedRoom].availableCount =
                                          @ - numberOfRooms]
       ELSE UNCHANGED << bookings, now, rooms >>
  /\ UNCHANGED << loading, pc, hotels, formVars, edits, loggedError, elsewhere >>

\* Confirm without the test of the selected room: a booking for a room
\* record made up from the selected ids.
handleConfirmBookingNoGuard ==
  /\ ~loading
  /\ Len(bookings) < MaxBookings
  /\ \E t \in now..MaxClock :
       /\ now' = t
       /\ bookings' = AppendBooking(bookings,
            NewBooking(IF getSelectedRoom # 0
                         THEN rooms[getSelectedRoom]
                         ELSE Room(selectedRoomId, selectedHotelId, 0, "available", 0),
                       t))
  /\ UNCHANGED << loading, pc, hotels, rooms, formVars, edits, loggedError, elsewhere >>

\* The click on 'Confirm Booking'.  The clock has advanced by some number
\* of milliseconds, possibly none, since it was last read.
handleConfirmBooking ==
  /\ ~loading
  /\ Len(bookings) < MaxBookings
  /\ IF getSelectedRoom # 0
       THEN \E t \in now..MaxClock :
              /\ now' = t
              /\ bookings' = AppendBooking(bookings,
                                           NewBooking(rooms[getSelectedRoom], t))
       ELSE UNCHANGED << bookings, now >>
  /\ UNCHANGED << loading, pc, hotels, rooms, formVars, edits, loggedError, elsewhere >>

Next ==
  \/ FetchHotelsOk
  \/ FetchRoomsOk
  \/ FetchBookingsOk
  \/ FetchFail
  \/ HotelChange
  \/ RoomClick
  \/ NumberOfRoomsChange
  \/ ArrivalChange
  \/ DepartureChange
  \/ AlternativePriceChange
  \/ GuestTextChange
  \/ PaymentMethodClick
  \/ PaymentDateChange
  \/ PaymentAmountChange
  \/ AmountPaidTodayChange
  \/ handleConfirmBooking

Spec == Init /\ [][Next]_vars

\* ------------------------------------------- fetchData of the list pages
\* What no step of the Reservations page touches.
notReservations == << bookingVars, guestsVars, authVars, hotelPageVars, resetVars,
                       middlewareVars >>

\* What fetchData of the Reservations page leaves alone.
notResFetch == << resUiVars, notReservations >>

ResFetchHotelsOk ==
  /\ resPc = "hotels"
  /\ resHotels' = HotelsFile
  /\ resPc' = "rooms"
  /\ UNCHANGED << resLoading, resRooms, resBookings, resLoggedError,
                  notResFetch >>

ResFetchRoomsOk ==
  /\ resPc = "rooms"
  /\ \E file \in RoomsFiles : resRooms' = file
  /\ resPc' = "bookings"
  /\ UNCHANGED << resLoading, resHotels, resBookings, resLoggedError,
                  notResFetch >>

ResFetchBookingsOk ==
  /\ resPc = "bookings"
  /\ \E file \in ResBookingsFiles : resBookings' = file
  /\ resLoading' = FALSE
  /\ resPc' = "done"
  /\ UNCHANGED << resHotels, resRooms, resLoggedError, notResFetch >>

\* A fetch or the parse of its body rejects: catch logs, finally runs.
ResFetchFail ==
  /\ resPc \in {"hotels", "rooms", "bookings"}
  /\ resLoggedError' = resPc
  /\ resLoading' = FALSE
  /\ resPc' = "done"
  /\ UNCHANGED << resHotels, resRooms, resBookings, notResFetch >>

\* ------------------------------------------------- the Reservations page
itemsPerPage == 10

UpperCase ==
  << "A", "B", "C", "D", "E", "F", "G", "H", "I", "J", "K", "L", "M",
     "N", "O", "P", "Q", "R", "S", "T", "U", "V", "W", "X", "Y", "Z" >>

LowerCase ==
  << "a", "b", "c", "d", "e", "f", "g", "h", "i", "j", "k", "l", "m",
     "n", "o", "p", "q", "r", "s", "t", "u", "v", "w", "x", "y", "z" >>

\* String.prototype.toLowerCase
toLowerCase(str) ==
  [i \in 1..Len(str) |->
     IF \E k \in 1..26 : UpperCase[k] = str[i]
       THEN LowerCase[CHOOSE k \in 1..26 : UpperCase[k] = str[i]]
       ELSE str[i]]

\* String.prototype.includes: q is a run of characters of str.
includes(str, q) ==
  \E i \in 0..(Len(str) - Len(q)) : SubSeq(str, i + 1, i + Len(q)) = q

\* The UTF-16 code order of the characters of the names: upper case before
\* lower case.
CharCode(c) ==
  IF \E k \in 1..26 : UpperCase[k] = c
    THEN CHOOSE k \in 1..26 : UpperCase[k] = c
    ELSE 26 + (CHOOSE k \in 1..26 : LowerCase[k] = c)

\* a > b on strings.
RECURSIVE StringGreater(_, _)
StringGreater(a, b) ==
  IF a = << >> THEN FALSE
  ELSE IF b = << >> THEN TRUE
  ELSE IF a[1] = b[1] THEN StringGreater(Tail(a), Tail(b))
  ELSE CharCode(a[1]) > CharCode(b[1])

\* The filter that lets every booking of the status through.
bookingMatchesNoStatus(booking) ==
  /\ hotelFilter = "" \/ booking.room.hotelId = hotelFilter
  /\ dateRangeFilter.start = EmptyDate \/ booking.guest.arrival >= dateRangeFilter.start
  /\ dateRangeFilter.end = EmptyDate \/ booking.guest.departure <= dateRangeFilter.end
  /\ \/ searchQuery = << >>
     \/ includes(toLowerCase(booking.guest.fullName), toLowerCase(searchQuery))
     \/ includes(toLowerCase(booking.resId), toLowerCase(searchQuery))
     \/ includes(booking.guest.telephone, searchQuery)

\* The predicate of bookings.filter: statusMatch, hotelMatch, dateMatch and
\* searchMatch.
bookingMatches(booking) ==
  /\ statusFilter = "" \/ booking.status = statusFilter
  /\ hotelFilter = "" \/ booking.room.hotelId = hotelFilter
  /\ dateRangeFilter.start = EmptyDate \/ booking.guest.arrival >= dateRangeFilter.start
  /\ dateRangeFilter.end = EmptyDate \/ booking.guest.departure <= dateRangeFilter.end
  /\ \/ searchQuery = << >>
     \/ includes(toLowerCase(booking.guest.fullName), toLowerCase(searchQuery))
     \/ includes(toLowerCase(booking.resId), toLowerCase(searchQuery))
     \/ includes(booking.guest.telephone, searchQuery)

\* aValue > bValue of the comparator, for the sort field.
ValueGreater(a, b) ==
  CASE sortBy = "name" -> StringGreater(a.guest.fullName, b.guest.fullName)
    [] sortBy = "amount" -> a.payment.amount > b.payment.amount
    [] OTHER -> a.guest.arrival > b.guest.arrival

\* The comparator puts a after b: it returns 1.
SortsAfter(a, b) ==
  IF sortOrder = "asc" THEN ValueGreater(a, b) ELSE ValueGreater(b, a)

\* The sorted list with one more booking put in.
RECURSIVE InsertSorted(_, _)
InsertSorted(b, list) ==
  IF list = << >> THEN << b >>
  ELSE IF SortsAfter(b, Head(list))
    THEN << Head(list) >> \o InsertSorted(b, Tail(list))
    ELSE << b >> \o list

\* Array.prototype.sort with the comparator: the sort values of the bookings
\* differ from booking to booking, so the comparator admits one order.
RECURSIVE SortBookings(_)
SortBookings(list) ==
  IF list = << >> THEN << >>
  ELSE InsertSorted(Head(list), SortBookings(Tail(list)))

filteredAndSortedBookings == SortBookings(SelectSeq(resBookings, bookingMatches))

totalPages == CeilDiv(Len(filteredAndSortedBookings), itemsPerPage)

\* Array.prototype.slice(from, to) of a list.
slice(list, from, to) == SubSeq(list, from + 1, Min(to, Len(list)))

paginatedBookings ==
  slice(filteredAndSortedBookings, (currentPage - 1) * itemsPerPage,
        currentPage * itemsPerPage)

Ids(list) == [i \in 1..Len(list) |-> list[i].id]

Range(list) == {list[i] : i \in 1..Len(list)}

\* bookings.reduce((sum, b) => sum + b.payment.amount, 0)
RECURSIVE SumAmounts(_)
SumAmounts(list) ==
  IF list = << >> THEN 0 ELSE Head(list).payment.amount + SumAmounts(Tail(list))

\* bookings.reduce((sum, b) => sum + (b.payment.remainingBalance || 0), 0)
RECURSIVE SumBalances(_)
SumBalances(list) ==
  IF list = << >> THEN 0
  ELSE Head(list).payment.remainingBalance + SumBalances(Tail(list))

CountStatus(status) ==
  Cardinality({i \in 1..Len(resBookings) : resBookings[i].status = status})

stats ==
  [total |-> Len(resBookings),
   pending |-> CountStatus("pending"),
   confirmed |-> CountStatus("confirmed"),
   checkedIn |-> CountStatus("checked-in"),
   checkedOut |-> CountStatus("checked-out"),
   cancelled |-> CountStatus("cancelled"),
   totalRevenue |-> SumAmounts(resBookings),
   pendingPayments |-> SumBalances(resBookings)]

\* Every event of the page needs the page rendered (the loading gate).  An
\* event that leaves the state as it is is a stuttering step.
ResEvent ==
  /\ ~resLoading
  /\ resEdits < MaxResEdits
  /\ resEdits' = resEdits + 1
  /\ UNCHANGED << resLoading, resPc, resHotels, resRooms, resLoggedError,
                  notReservations >>

SearchChange ==
  /\ ResEvent
  /\ \E q \in SearchInputs : q # searchQuery /\ searchQuery' = q
  /\ UNCHANGED << statusFilter, hotelFilter, dateRangeFilter,
                  selectedBookings, viewMode, sortBy, sortOrder, currentPage,
                  resAlert, resBookings >>

ViewModeClick ==
  /\ ResEvent
  /\ viewMode' = IF viewMode = "table" THEN "cards" ELSE "table"
  /\ UNCHANGED << statusFilter, hotelFilter, dateRangeFilter, searchQuery,
                  selectedBookings, sortBy, sortOrder, currentPage, resAlert,
                  resBookings >>

StatusFilterChange ==
  /\ ResEvent
  /\ \E v \in StatusOptions : v # statusFilter /\ statusFilter' = v
  /\ UNCHANGED << hotelFilter, dateRangeFilter, searchQuery,
                  selectedBookings, viewMode, sortBy, sortOrder, currentPage,
                  resAlert, resBookings >>

\* The options are 'All Hotels' and the hotels loaded.
HotelFilterChange ==
  /\ ResEvent
  /\ \E v \in {""} \cup {resHotels[i].id : i \in 1..Len(resHotels)} :
       v # hotelFilter /\ hotelFilter' = v
  /\ UNCHANGED << statusFilter, dateRangeFilter, searchQuery,
                  selectedBookings, viewMode, sortBy, sortOrder, currentPage,
                  resAlert, resBookings >>

DateRangeStartChange ==
  /\ ResEvent
  /\ \E d \in RangeStartInputs :
       /\ d # dateRangeFilter.start
       /\ dateRangeFilter' = [dateRangeFilter EXCEPT !.start = d]
  /\ UNCHANGED << statusFilter, hotelFilter, searchQuery, selectedBookings,
                  viewMode, sortBy, sortOrder, currentPage, resAlert,
                  resBookings >>

DateRangeEndChange ==
  /\ ResEvent
  /\ \E d \in RangeEndInputs :
       /\ d # dateRangeFilter.end
       /\ dateRangeFilter' = [dateRangeFilter EXCEPT !.end = d]
  /\ UNCHANGED << statusFilter, hotelFilter, searchQuery, selectedBookings,
                  viewMode, sortBy, sortOrder, currentPage, resAlert,
                  resBookings >>

SortChange ==
  /\ ResEvent
  /\ \E o \in SortOptions :
       /\ << o.field, o.order >> # << sortBy, sortOrder >>
       /\ sortBy' = o.field
       /\ sortOrder' = o.order
  /\ UNCHANGED << statusFilter, hotelFilter, dateRangeFilter, searchQuery,
                  selectedBookings, viewMode, currentPage, resAlert,
                  resBookings >>

\* Sets the status of the selected bookings, whether listed or not.
handleBulkStatusChangeListed(newStatus) ==
  /\ resBookings' =
       [i \in 1..Len(resBookings) |->
          IF resBookings[i].id \in Range(selectedBookings)
               \/ resBookings[i].id \in Range(Ids(paginatedBookings))
            THEN [resBookings[i] EXCEPT !.status = newStatus]
            ELSE resBookings[i]]
  /\ selectedBookings' = << >>

handleBulkStatusChange(newStatus) ==
  /\ resBookings' =
       [i \in 1..Len(resBookings) |->
          IF resBookings[i].id \in Range(selectedBookings)
            THEN [resBookings[i] EXCEPT !.status = newStatus]
            ELSE resBookings[i]]
  /\ selectedBookings' = << >>

\* The bulk actions bar is shown while something is selected.
BulkStatusClick ==
  /\ ResEvent
  /\ Len(selectedBookings) > 0
  /\ \E newStatus \in {"confirmed", "cancelled"} : handleBulkStatusChange(newStatus)
  /\ UNCHANGED << statusFilter, hotelFilter, dateRangeFilter, searchQuery,
                  viewMode, sortBy, sortOrder, currentPage, resAlert >>

ClearSelectionClick ==
  /\ ResEvent
  /\ Len(selectedBookings) > 0
  /\ selectedBookings' = << >>
  /\ UNCHANGED << statusFilter, hotelFilter, dateRangeFilter, searchQuery,
                  viewMode, sortBy, sortOrder, currentPage, resAlert,
                  resBookings >>

\* The header checkbox is shown checked.
selectAllChecked ==
  Len(selectedBookings) = Len(paginatedBookings) /\ Len(paginatedBookings) > 0

\* The click hands the handler the opposite of what the box shows.
SelectAllChange ==
  /\ ResEvent
  /\ viewMode = "table"
  /\ LET rows == paginatedBookings
     IN  selectedBookings' =
           IF ~(Len(selectedBookings) = Len(rows) /\ Len(rows) > 0)
             THEN Ids(rows)
             ELSE << >>
  /\ selectedBookings' # selectedBookings
  /\ UNCHANGED << statusFilter, hotelFilter, dateRangeFilter, searchQuery,
                  viewMode, sortBy, sortOrder, currentPage, resAlert,
                  resBookings >>

RowCheckboxChange ==
  /\ ResEvent
  /\ viewMode = "table"
  /\ LET rows == paginatedBookings
     IN  \E i \in 1..Len(rows) :
           LET id == rows[i].id
               notThis(x) == x # id
           IN  selectedBookings' =
                 IF id \notin Range(selectedBookings)
                   THEN Append(selectedBookings, id)
                   ELSE SelectSeq(selectedBookings, notThis)
  /\ UNCHANGED << statusFilter, hotelFilter, dateRangeFilter, searchQuery,
                  viewMode, sortBy, sortOrder, currentPage, resAlert,
                  resBookings >>

\* The row's Cancel with the confirm dialog accepted: a log line and the
\* alert 'Reservation ... has been cancelled'.
RowCancelClick ==
  /\ ResEvent
  /\ viewMode = "table"
  /\ LET rows == paginatedBookings
     IN  \E i \in 1..Len(rows) :
           resAlert' = << "has been cancelled", rows[i].id >>
  /\ UNCHANGED << statusFilter, hotelFilter, dateRangeFilter, searchQuery,
                  selectedBookings, viewMode, sortBy, sortOrder, currentPage,
                  resBookings >>

\* The pagination controls are rendered for more than one page; Previous is
\* disabled on page 1.
PreviousPageClick ==
  /\ ResEvent
  /\ totalPages > 1
  /\ currentPage # 1
  /\ currentPage' = IF currentPage - 1 > 1 THEN currentPage - 1 ELSE 1
  /\ UNCHANGED << statusFilter, hotelFilter, dateRangeFilter, searchQuery,
                  selectedBookings, viewMode, sortBy, sortOrder, resAlert,
                  resBookings >>

\* Up to five page buttons, from max(1, currentPage - 2) on.
PageButtonClick ==
  /\ ResEvent
  /\ totalPages > 1
  /\ LET pages == totalPages
     IN  \E i \in 0..(Min(5, pages) - 1) :
           LET page == i + (IF currentPage - 2 > 1 THEN currentPage - 2 ELSE 1)
           IN  /\ page <= pages
               /\ page # currentPage
               /\ currentPage' = page
  /\ UNCHANGED << statusFilter, hotelFilter, dateRangeFilter, searchQuery,
                  selectedBookings, viewMode, sortBy, sortOrder, resAlert,
                  resBookings >>

\* Next is disabled on the last page.
NextPageClick ==
  /\ ResEvent
  /\ totalPages > 1
  /\ currentPage # totalPages
  /\ currentPage' = Min(totalPages, currentPage + 1)
  /\ currentPage' # currentPage
  /\ UNCHANGED << statusFilter, hotelFilter, dateRangeFilter, searchQuery,
                  selectedBookings, viewMode, sortBy, sortOrder, resAlert,
                  resBookings >>

\* The Reservations page: its fetchData and its events.
NextReservations ==
  \/ ResFetchHotelsOk
  \/ ResFetchRoomsOk
  \/ ResFetchBookingsOk
  \/ ResFetchFail
  \/ SearchChange
  \/ ViewModeClick
  \/ StatusFilterChange
  \/ HotelFilterChange
  \/ DateRangeStartChange
  \/ DateRangeEndChange
  \/ SortChange
  \/ BulkStatusClick
  \/ ClearSelectionClick
  \/ SelectAllChange
  \/ RowCheckboxChange
  \/ RowCancelClick
  \/ PreviousPageClick
  \/ PageButtonClick
  \/ NextPageClick

SpecReservations == Init /\ [][NextReservations]_vars

\* ------------------------------------------------------- the hotels page
\* What no step of the hotels page touches.
notHotelPage == << bookingVars, resVars, guestsVars, authVars, resUiVars, resetVars,
                    middlewareVars >>

\* The predicate of hotels.filter: nameMatch and codeMatch.
hotelMatches(hotel) ==
  /\ \/ nameFilter = << >>
     \/ includes(toLowerCase(hotel.name), toLowerCase(nameFilter))
     \/ includes(toLowerCase(hotel.altName), toLowerCase(nameFilter))
  /\ \/ codeFilter = << >>
     \/ includes(toLowerCase(hotel.code), toLowerCase(codeFilter))

filteredHotels == SelectSeq(hotelList, hotelMatches)

\* Typing into the add form and into the filters: the values are few, the
\* events are not counted.
HotelNameChange ==
  /\ \E v \in HotelNameInputs : v # hotelName /\ hotelName' = v
  /\ UNCHANGED << hotelList, selectedHotels, nameFilter, codeFilter, hotelCode,
                  altHotelName, hotelNow, hotelEdits, notHotelPage >>

HotelCodeChange ==
  /\ \E v \in HotelCodeInputs : v # hotelCode /\ hotelCode' = v
  /\ UNCHANGED << hotelList, selectedHotels, nameFilter, codeFilter, hotelName,
                  altHotelName, hotelNow, hotelEdits, notHotelPage >>

AltHotelNameChange ==
  /\ \E v \in AltHotelNameInputs : v # altHotelName /\ altHotelName' = v
  /\ UNCHANGED << hotelList, selectedHotels, nameFilter, codeFilter, hotelName,
                  hotelCode, hotelNow, hotelEdits, notHotelPage >>

NameFilterChange ==
  /\ \E v \in NameFilterInputs : v # nameFilter /\ nameFilter' = v
  /\ UNCHANGED << hotelList, selectedHotels, codeFilter, hotelName, hotelCode,
                  altHotelName, hotelNow, hotelEdits, notHotelPage >>

CodeFilterChange ==
  /\ \E v \in CodeFilterInputs : v # codeFilter /\ codeFilter' = v
  /\ UNCHANGED << hotelList, selectedHotels, nameFilter, hotelName, hotelCode,
                  altHotelName, hotelNow, hotelEdits, notHotelPage >>

\* An event on the list or on the selection.
HotelEvent ==
  /\ hotelEdits < MaxHotelEdits
  /\ hotelEdits' = hotelEdits + 1
  /\ UNCHANGED notHotelPage

\* The submit of the add form: a submit with an empty field changes nothing.
handleAddHotel ==
  /\ HotelEvent
  /\ IF hotelName # << >> /\ hotelCode # << >> /\ altHotelName # << >>
       THEN /\ \E t \in hotelNow..MaxHotelClock :
                 /\ hotelNow' = t
                 /\ hotelList' = Append(hotelList,
                                        [id |-> << "now", t >>, name |-> hotelName,
                                         code |-> hotelCode, altName |-> altHotelName,
                                         createdAt |-> << "date", t >>])
            /\ hotelName' = << >>
            /\ hotelCode' = << >>
            /\ altHotelName' = << >>
       ELSE UNCHANGED << hotelList, hotelNow, hotelName, hotelCode, altHotelName >>
  /\ UNCHANGED << selectedHotels, nameFilter, codeFilter >>

\* The list without the hotels of an id.
WithoutId(list, id) ==
  LET keep(x) == x.id # id IN SelectSeq(list, keep)

\* The selection without an id.
WithoutSelected(list, id) ==
  LET keep(x) == x # id IN SelectSeq(list, keep)

\* The Delete of a row that leaves the selection as it is.
handleDeleteHotelKeepsSelection ==
  /\ HotelEvent
  /\ LET rows == filteredHotels
     IN  \E i \in 1..Len(rows) : hotelList' = WithoutId(hotelList, rows[i].id)
  /\ UNCHANGED << selectedHotels, nameFilter, codeFilter, hotelName, hotelCode,
                  altHotelName, hotelNow >>

\* The Delete of a listed row.
handleDeleteHotel ==
  /\ HotelEvent
  /\ LET rows == filteredHotels
     IN  \E i \in 1..Len(rows) :
           /\ hotelList' = WithoutId(hotelList, rows[i].id)
           /\ selectedHotels' = WithoutSelected(selectedHotels, rows[i].id)
  /\ UNCHANGED << nameFilter, codeFilter, hotelName, hotelCode, altHotelName,
                  hotelNow >>

\* The checkbox of a listed row.
handleSelectHotel ==
  /\ HotelEvent
  /\ LET rows == filteredHotels
     IN  \E i \in 1..Len(rows) :
           selectedHotels' =
             IF rows[i].id \in Range(selectedHotels)
               THEN WithoutSelected(selectedHotels, rows[i].id)
               ELSE Append(selectedHotels, rows[i].id)
  /\ UNCHANGED << hotelList, nameFilter, codeFilter, hotelName, hotelCode,
                  altHotelName, hotelNow >>

\* The header checkbox.
handleSelectAllHotels ==
  /\ HotelEvent
  /\ selectedHotels' =
       IF Len(selectedHotels) = Len(filteredHotels)
         THEN << >>
         ELSE Ids(filteredHotels)
  /\ selectedHotels' # selectedHotels
  /\ UNCHANGED << hotelList, nameFilter, codeFilter, hotelName, hotelCode,
                  altHotelName, hotelNow >>

\* 'Delete Selected', shown while something is selected.
handleDeleteSelected ==
  /\ HotelEvent
  /\ Len(selectedHotels) > 0
  /\ LET keep(x) == x.id \notin Range(selectedHotels)
     IN  hotelList' = SelectSeq(hotelList, keep)
  /\ selectedHotels' = << >>
  /\ UNCHANGED << nameFilter, codeFilter, hotelName, hotelCode, altHotelName,
                  hotelNow >>

NextHotels ==
  \/ HotelNameChange
  \/ HotelCodeChange
  \/ AltHotelNameChange
  \/ NameFilterChange
  \/ CodeFilterChange
  \/ handleAddHotel
  \/ handleDeleteHotel
  \/ handleSelectHotel
  \/ handleSelectAllHotels
  \/ handleDeleteSelected

SpecHotels == Init /\ [][NextHotels]_vars

\* The guests the page lists: written in fetchData itself.
sampleGuests ==
  << [id |-> "1", fullName |-> "Ahmed Al-Rashid", vip |-> TRUE],
     [id |-> "2", fullName |-> "Sarah Johnson", vip |-> FALSE],
     [id |-> "3", fullName |-> "Mohammed Hassan", vip |-> TRUE] >>

\* What no step of the Guests page touches.
notGuests == << bookingVars, resVars, authVars, resUiVars, hotelPageVars, resetVars,
                 middlewareVars >>

GuestsFetchHotelsOk ==
  /\ guestsPc = "hotels"
  /\ guestsHotels' = HotelsFile
  /\ guestsPc' = "bookings"
  /\ UNCHANGED << guestsLoading, guestsBookings, guests, guestsLoggedError,
                  notGuests >>

\* After the bookings the guests are set in the same step: nothing is
\* awaited in between.
GuestsFetchBookingsOk ==
  /\ guestsPc = "bookings"
  /\ \E file \in BookingsFiles : guestsBookings' = file
  /\ guests' = sampleGuests
  /\ guestsLoading' = FALSE
  /\ guestsPc' = "done"
  /\ UNCHANGED << guestsHotels, guestsLoggedError, notGuests >>

\* The failing fetch with the guests set all the same.
GuestsFetchFailSampleGuests ==
  /\ guestsPc \in {"hotels", "bookings"}
  /\ guestsLoggedError' = guestsPc
  /\ guests' = sampleGuests
  /\ guestsLoading' = FALSE
  /\ guestsPc' = "done"
  /\ UNCHANGED << guestsHotels, guestsBookings, notGuests >>

GuestsFetchFail ==
  /\ guestsPc \in {"hotels", "bookings"}
  /\ guestsLoggedError' = guestsPc
  /\ guestsLoading' = FALSE
  /\ guestsPc' = "done"
  /\ UNCHANGED << guestsHotels, guestsBookings, guests, notGuests >>

\* The three pages fetching, each on its own.
NextFetch ==
  \/ FetchHotelsOk
  \/ FetchRoomsOk
  \/ FetchBookingsOk
  \/ FetchFail
  \/ ResFetchHotelsOk
  \/ ResFetchRoomsOk
  \/ ResFetchBookingsOk
  \/ ResFetchFail
  \/ GuestsFetchHotelsOk
  \/ GuestsFetchBookingsOk
  \/ GuestsFetchFail

SpecFetch == Init /\ [][NextFetch]_vars

\* --------------------------------------------------- the loads under way
\* The awaits of one fetchData: each resolves or rejects.
FetchStep == FetchHotelsOk \/ FetchRoomsOk \/ FetchBookingsOk \/ FetchFail

ResFetchStep ==
  ResFetchHotelsOk \/ ResFetchRoomsOk \/ ResFetchBookingsOk \/ ResFetchFail

GuestsFetchStep == GuestsFetchHotelsOk \/ GuestsFetchBookingsOk \/ GuestsFetchFail

\* The loads of the three pages, and on the wizard the steps from the
\* loaded page to a confirmed booking.
NextLoading ==
  \/ FetchHotelsOk
  \/ FetchRoomsOk
  \/ FetchBookingsOk
  \/ FetchFail
  \/ ResFetchHotelsOk
  \/ ResFetchRoomsOk
  \/ ResFetchBookingsOk
  \/ ResFetchFail
  \/ GuestsFetchHotelsOk
  \/ GuestsFetchBookingsOk
  \/ GuestsFetchFail
  \/ HotelChange
  \/ RoomClick
  \/ handleConfirmBooking

\* No response stays pending for ever: a fetch that can resolve or reject
\* does so.
SpecLoading ==
  /\ Init
  /\ [][NextLoading]_vars
  /\ WF_vars(FetchStep)
  /\ WF_vars(ResFetchStep)
  /\ WF_vars(GuestsFetchStep)

\* ------------------------------------------------- credentials authorize
\* 15 * 60 * 1000: the lock, in ms.
LockMs == 15 * 60 * 1000

\* The step of the server clock: 5 minutes, in ms.
TickMs == 5 * 60 * 1000

\* The emails a login is tried with: the users and an email of no user.
Emails == Accounts \cup {"nobody@example.com"}

\* user.lockedUntil && user.lockedUntil > new Date()
isLocked(u) == lockedUntil[u] # NoDate /\ lockedUntil[u][1] > authNow

\* failedAttempts >= 6
shouldLockAtSix(failedAttempts) == failedAttempts >= 6

\* failedAttempts >= 5
shouldLock(failedAttempts) == failedAttempts >= 5

\* What no step of the login touches.
notAuth == << bookingVars, resVars, guestsVars, resUiVars, hotelPageVars, resetVars,
               middlewareVars >>

\* One call of authorize with an email, start to return: the outcome of the
\* rate limiter and of verifyPassword are its inputs.  No user found is
\* null; every throw is caught by the outer catch, which returns null.
authorize(email) ==
  \E success \in BOOLEAN, isValid \in BOOLEAN :
    /\ IF ~success \/ email \notin Accounts
         THEN /\ lastResult' = "null"
              /\ UNCHANGED << failedLoginAttempts, lockedUntil, failedChecks >>
         ELSE IF isLocked(email) \/ ~isActive[email]
           THEN /\ lastResult' = "null"
                /\ UNCHANGED << failedLoginAttempts, lockedUntil, failedChecks >>
           ELSE IF ~isValid
             THEN /\ failedLoginAttempts[email] < MaxFailedAttempts
                  /\ failedLoginAttempts' =
                       [failedLoginAttempts EXCEPT ![email] = @ + 1]
                  /\ lockedUntil' =
                       [lockedUntil EXCEPT ![email] =
                          IF shouldLock(failedLoginAttempts[email] + 1)
                            THEN << authNow + LockMs >>
                            ELSE NoDate]
                  /\ failedChecks' = [failedChecks EXCEPT ![email] = @ + 1]
                  /\ lastResult' = "null"
             ELSE /\ failedLoginAttempts' =
                       [failedLoginAttempts EXCEPT ![email] = 0]
                  /\ lockedUntil' = [lockedUntil EXCEPT ![email] = NoDate]
                  /\ failedChecks' = [failedChecks EXCEPT ![email] = 0]
                  /\ lastResult' = email
    /\ UNCHANGED << isActive, authNow, calls, notAuth >>

\* Time passes on the server.
AuthTick ==
  /\ authNow < MaxAuthTicks * TickMs
  /\ authNow' = authNow + TickMs
  /\ UNCHANGED << failedLoginAttempts, lockedUntil, isActive, lastResult,
                  failedChecks, calls, notAuth >>

NextAuth ==
  \/ \E email \in Emails : authorize(email)
  \/ AuthTick

\* Every user active, or some deactivated.
InitAuth ==
  /\ InitBooking
  /\ InitReservations
  /\ InitGuests
  /\ InitUser
  /\ isActive \in [Accounts -> BOOLEAN]
  /\ InitHotelPage
  /\ InitReset
  /\ InitMiddleware

SpecAuth == InitAuth /\ [][NextAuth]_vars

\* ----------------------------------------- authorize, calls side by side
\* await prisma.user.findUnique of a request let through by the rate
\* limiter: the call keeps the row as read.  A locked or deactivated user
\* throws, and the catch returns null.
authorizeFindUnique(r, email) ==
  /\ calls[r] = NoCall
  /\ IF isLocked(email) \/ ~isActive[email]
       THEN /\ lastResult' = "null"
            /\ UNCHANGED calls
       ELSE /\ calls' = [calls EXCEPT ![r] =
                           << [email |-> email,
                               failedLoginAttempts |-> failedLoginAttempts[email]] >>]
            /\ UNCHANGED lastResult
  /\ UNCHANGED << failedLoginAttempts, lockedUntil, isActive, authNow,
                  failedChecks, notAuth >>

\* await verifyPassword and the prisma.user.update after it, computed from
\* the row the call has read.
authorizeVerifyPassword(r) ==
  /\ calls[r] # NoCall
  /\ LET user == calls[r][1]
         email == user.email
     IN  \E isValid \in BOOLEAN :
           IF ~isValid
             THEN /\ failedChecks[email] < MaxFailedAttempts
                  /\ failedLoginAttempts' =
                       [failedLoginAttempts EXCEPT
                          ![email] = user.failedLoginAttempts + 1]
                  /\ lockedUntil' =
                       [lockedUntil EXCEPT ![email] =
                          IF shouldLock(user.failedLoginAttempts + 1)
                            THEN << authNow + LockMs >>
                            ELSE NoDate]
                  /\ failedChecks' = [failedChecks EXCEPT ![email] = @ + 1]
                  /\ lastResult' = "null"
             ELSE /\ failedLoginAttempts' =
                       [failedLoginAttempts EXCEPT ![email] = 0]
                  /\ lockedUntil' = [lockedUntil EXCEPT ![email] = NoDate]
                  /\ failedChecks' = [failedChecks EXCEPT ![email] = 0]
                  /\ lastResult' = email
  /\ calls' = [calls EXCEPT ![r] = NoCall]
  /\ UNCHANGED << isActive, authNow, notAuth >>

NextAuthConcurrent ==
  \/ \E r \in Requests, email \in Accounts : authorizeFindUnique(r, email)
  \/ \E r \in Requests : authorizeVerifyPassword(r)
  \/ AuthTick

SpecAuthConcurrent == InitAuth /\ [][NextAuthConcurrent]_vars

\* ------------------------------------------------ reset-password route
\* What no step of the password reset touches.
notReset == << bookingVars, resVars, guestsVars, authVars, resUiVars, hotelPageVars,
                middlewareVars >>

\* 60 * 60 * 1000: the life of a token, in ms.
TokenMs == 60 * 60 * 1000

\* The step of the clock of the password reset: an hour, in ms.
ResetTickMs == 60 * 60 * 1000

\* The emails a reset is asked for: a user and an email of no user.
ResetEmails == {"test@example.com", "nobody@example.com"}

\* The new passwords a PUT carries.
PasswordInputs == {"new-pass-1", "new-pass-2"}

\* The tokens a PUT carries: those created, that of the sign-up, and one
\* that never was created.
TokenInputs == { << "uuid", n >> : n \in 0..MaxTokens } \cup { << "no-uuid" >> }

\* POST of a request let through by the rate limiter: a token for a user;
\* for an email of no user the same answer and no token.
RequestReset(email) ==
  /\ tokensCreated < MaxTokens
  /\ email \in Accounts
  /\ tokensCreated' = tokensCreated + 1
  /\ verificationTokens' = verificationTokens \cup
       { [id |-> tokensCreated + 1, identifier |-> email,
          token |-> << "uuid", tokensCreated + 1 >>,
          expires |-> resetNow + TokenMs, type |-> "PASSWORD_RESET"] }
  /\ UNCHANGED << userPassword, puts, resetNow, putResponse, passwordResets,
                  notReset >>

\* where: { token, type: 'PASSWORD_RESET', expires: { gt: new Date() } }
ValidTokens(token) ==
  { row \in verificationTokens :
      /\ row.token = token
      /\ row.type = "PASSWORD_RESET"
      /\ row.expires > resetNow }

\* PUT up to findFirst: 400 without a row, else the call goes on with it.
ConfirmResetFindFirst(r, token, password) ==
  /\ puts[r] = NoCall
  /\ IF ValidTokens(token) = {}
       THEN /\ putResponse' = << [token |-> token, status |-> 400] >>
            /\ UNCHANGED puts
       ELSE /\ \E row \in ValidTokens(token) :
                 puts' = [puts EXCEPT ![r] =
                            << [verificationToken |-> row,
                                hashedPassword |-> hashPassword(password),
                                tx |-> "none"] >>]
            /\ UNCHANGED putResponse
  /\ UNCHANGED << verificationTokens, userPassword, resetNow, tokensCreated,
                  passwordResets, notReset >>

\* Another transaction has updated the row of the user and is open.
RowLocked(r, email) ==
  \E q \in Requests \ {r} :
    /\ puts[q] # NoCall
    /\ puts[q][1].tx = "updated"
    /\ puts[q][1].verificationToken.identifier = email

\* tx.user.update: waits for the row of the user; the write is seen by the
\* others at the commit.
ConfirmResetUpdate(r) ==
  /\ puts[r] # NoCall
  /\ puts[r][1].tx = "none"
  /\ ~RowLocked(r, puts[r][1].verificationToken.identifier)
  /\ puts' = [puts EXCEPT ![r] = << [puts[r][1] EXCEPT !.tx = "updated"] >>]
  /\ UNCHANGED << verificationTokens, userPassword, resetNow, tokensCreated,
                  putResponse, passwordResets, notReset >>

\* The row of a token id in the table, if there is one.
RowsOfId(id) == { row \in verificationTokens : row.id = id }

\* The two writes outside a transaction: the update of the password stays
\* when the delete finds no row.
ConfirmResetDeleteNoTransaction(r) ==
  /\ puts[r] # NoCall
  /\ puts[r][1].tx = "updated"
  /\ LET call == puts[r][1]
         row == call.verificationToken
     IN  /\ userPassword' = [userPassword EXCEPT ![row.identifier] = call.hashedPassword]
         /\ passwordResets' = [passwordResets EXCEPT ![row.id] = @ + 1]
         /\ verificationTokens' = verificationTokens \ RowsOfId(row.id)
         /\ putResponse' =
              << [token |-> row.token,
                  status |-> IF RowsOfId(row.id) # {} THEN 200 ELSE 500] >>
  /\ puts' = [puts EXCEPT ![r] = NoCall]
  /\ UNCHANGED << resetNow, tokensCreated, notReset >>

\* tx.verificationToken.delete and the end of the transaction: with the
\* row there, the delete, the commit and 200; without it delete throws, the
\* transaction is rolled back and the catch answers 500.
ConfirmResetDelete(r) ==
  /\ puts[r] # NoCall
  /\ puts[r][1].tx = "updated"
  /\ LET call == puts[r][1]
         row == call.verificationToken
     IN  IF RowsOfId(row.id) # {}
           THEN /\ userPassword' =
                     [userPassword EXCEPT ![row.identifier] = call.hashedPassword]
                /\ passwordResets' = [passwordResets EXCEPT ![row.id] = @ + 1]
                /\ verificationTokens' = verificationTokens \ RowsOfId(row.id)
                /\ putResponse' = << [token |-> row.token, status |-> 200] >>
           ELSE /\ putResponse' = << [token |-> row.token, status |-> 500] >>
                /\ UNCHANGED << userPassword, passwordResets, verificationTokens >>
  /\ puts' = [puts EXCEPT ![r] = NoCall]
  /\ UNCHANGED << resetNow, tokensCreated, notReset >>

\* Time passes on the server.
ResetTick ==
  /\ resetNow < MaxResetTicks * ResetTickMs
  /\ resetNow' = resetNow + ResetTickMs
  /\ UNCHANGED << verificationTokens, userPassword, puts, tokensCreated,
                  putResponse, passwordResets, notReset >>

NextReset ==
  \/ \E email \in ResetEmails : RequestReset(email)
  \/ \E r \in Requests, token \in TokenInputs, password \in PasswordInputs :
       ConfirmResetFindFirst(r, token, password)
  \/ \E r \in Requests : ConfirmResetUpdate(r)
  \/ \E r \in Requests : ConfirmResetDelete(r)
  \/ ResetTick

SpecReset == Init /\ [][NextReset]_vars

\* ------------------------------------------------------------ middleware
\* What no step of the middleware touches.
notMiddleware == << bookingVars, resVars, guestsVars, authVars, resUiVars, hotelPageVars,
                    resetVars >>

\* A pathname is the sequence of its characters.
\* const publicRoutes
publicRoutes ==
  { << "/" >>,
    << "/", "l", "o", "g", "i", "n" >>,
    << "/", "s", "i", "g", "n", "u", "p" >>,
    << "/", "a", "u", "t", "h", "/", "v", "e", "r", "i", "f", "y", "-",
       "e", "m", "a", "i", "l" >>,
    << "/", "a", "u", "t", "h", "/", "r", "e", "s", "e", "t", "-", "p",
       "a", "s", "s", "w", "o", "r", "d" >>,
    << "/", "a", "p", "i", "/", "a", "u", "t", "h", "/", "s", "i", "g",
       "n", "u", "p" >>,
    << "/", "a", "p", "i", "/", "a", "u", "t", "h", "/", "r", "e", "s",
       "e", "t", "-", "p", "a", "s", "s", "w", "o", "r", "d" >> }

\* const authRoutes
authRoutes ==
  { << "/", "l", "o", "g", "i", "n" >>,
    << "/", "s", "i", "g", "n", "u", "p" >>,
    << "/", "a", "u", "t", "h", "/", "v", "e", "r", "i", "f", "y", "-",
       "e", "m", "a", "i", "l" >>,
    << "/", "a", "u", "t", "h", "/", "r", "e", "s", "e", "t", "-", "p",
       "a", "s", "s", "w", "o", "r", "d" >> }

\* const adminRoutes
adminRoutes ==
  { << "/", "a", "d", "m", "i", "n" >> }

\* const protectedRoutes
protectedRoutes ==
  { << "/", "d", "a", "s", "h", "b", "o", "a", "r", "d" >>,
    << "/", "p", "r", "o", "f", "i", "l", "e" >>,
    << "/", "s", "e", "t", "t", "i", "n", "g", "s" >> }

\* The pathnames of the requests.
Pathnames ==
  { << "/" >>,
    << "/", "l", "o", "g", "i", "n" >>,
    << "/", "l", "o", "g", "i", "n", "/", "h", "e", "l", "p" >>,
    << "/", "s", "i", "g", "n", "u", "p" >>,
    << "/", "a", "u", "t", "h", "/", "v", "e", "r", "i", "f", "y", "-",
       "e", "m", "a", "i", "l" >>,
    << "/", "a", "p", "i", "/", "a", "u", "t", "h", "/", "s", "e", "s",
       "s", "i", "o", "n" >>,
    << "/", "a", "d", "m", "i", "n" >>,
    << "/", "a", "d", "m", "i", "n", "/", "u", "s", "e", "r", "s" >>,
    << "/", "a", "d", "m", "i", "n", "i", "s", "t", "r", "a", "t", "o",
       "r" >>,
    << "/", "d", "a", "s", "h", "b", "o", "a", "r", "d" >>,
    << "/", "d", "a", "s", "h", "b", "o", "a", "r", "d", "/", "s", "t",
       "a", "t", "s" >>,
    << "/", "p", "r", "o", "f", "i", "l", "e" >>,
    << "/", "p", "r", "o", "f", "i", "l", "e", "/", "e", "d", "i", "t" >>,
    << "/", "s", "e", "t", "t", "i", "n", "g", "s" >>,
    << "/", "s", "e", "t", "t", "i", "n", "g", "s", "/", "k", "e", "y",
       "s" >>,
    << "/", "u", "n", "a", "u", "t", "h", "o", "r", "i", "z", "e", "d" >>,
    << "/", "a", "b", "o", "u", "t" >>,
    << "/", "a", "p", "i", "/", "h", "o", "t", "e", "l", "s" >> }

\* req.auth: no session, or the user of the session with a role (USER,
\* ADMIN or none) and emailVerified (a date or null).
NoSession == << >>

Sessions ==
  { NoSession } \cup
  { << [role |-> role, emailVerified |-> emailVerified] >> :
      role \in {"USER", "ADMIN", "undefined"}, emailVerified \in BOOLEAN }

\* String.prototype.startsWith
startsWith(text, prefix) ==
  /\ Len(prefix) <= Len(text)
  /\ SubSeq(text, 1, Len(prefix)) = prefix

\* encodeURIComponent on the characters of the pathnames: a slash is
\* escaped, letters, digits and hyphens stay.
RECURSIVE encodeURIComponent(_)
encodeURIComponent(text) ==
  IF text = << >>
    THEN << >>
    ELSE (IF Head(text) = "/" THEN << "%", "2", "F" >> ELSE << Head(text) >>)
           \o encodeURIComponent(Tail(text))

isApiAuthRoute(pathname) == startsWith(pathname, << "/", "a", "p", "i", "/", "a", "u", "t", "h" >>)

isPublicRoute(pathname) ==
  \E route \in publicRoutes :
    pathname = route \/ startsWith(pathname, route \o << "/" >>)

isAuthRoute(pathname) == pathname \in authRoutes

isAdminRoute(pathname) == \E route \in adminRoutes : startsWith(pathname, route)

\* protectedRoutes.includes(pathname): the route itself and no path under it.
isProtectedRouteExact(pathname) == pathname \in protectedRoutes

isProtectedRoute(pathname) ==
  \E route \in protectedRoutes : startsWith(pathname, route)

\* NextResponse.next() and NextResponse.redirect(new URL(to, nextUrl))
NextResponseNext == [kind |-> "next"]

NextResponseRedirect(to) == [kind |-> "redirect", to |-> to]

\* '/login?callbackUrl=' + encodeURIComponent(nextUrl.pathname)
LoginWithCallback(pathname) ==
  << "/", "l", "o", "g", "i", "n", "?", "c", "a", "l", "l", "b", "a",
       "c", "k", "U", "r", "l", "=" >> \o encodeURIComponent(pathname)

\* The callback of auth((req) => ...).
middleware(pathname, session) ==
  LET isLoggedIn == session # NoSession
      userRole == IF isLoggedIn THEN session[1].role ELSE "undefined"
      emailVerified == isLoggedIn /\ session[1].emailVerified
  IN  IF isApiAuthRoute(pathname)
        THEN NextResponseNext
      ELSE IF isAuthRoute(pathname)
        THEN IF isLoggedIn
               THEN NextResponseRedirect(IF userRole = "ADMIN"
                                           THEN << "/", "a", "d", "m", "i", "n" >>
                                           ELSE << "/", "d", "a", "s", "h", "b", "o", "a", "r", "d" >>)
               ELSE NextResponseNext
      ELSE IF isAdminRoute(pathname)
        THEN IF ~isLoggedIn
               THEN NextResponseRedirect(LoginWithCallback(pathname))
             ELSE IF userRole # "ADMIN"
               THEN NextResponseRedirect(<< "/", "u", "n", "a", "u", "t", "h", "o", "r", "i", "z", "e", "d" >>)
             ELSE NextResponseNext
      ELSE IF isProtectedRoute(pathname) /\ ~isLoggedIn
        THEN NextResponseRedirect(LoginWithCallback(pathname))
      ELSE IF isProtectedRoute(pathname) /\ isLoggedIn /\ ~emailVerified
        THEN NextResponseRedirect(<< "/", "a", "u", "t", "h", "/", "v", "e", "r", "i", "f", "y", "-",
       "e", "m", "a", "i", "l" >>)
      ELSE NextResponseNext

\* A request reaches the middleware.
MiddlewareRequest ==
  /\ \E pathname \in Pathnames, session \in Sessions :
       /\ request' = << [pathname |-> pathname, session |-> session] >>
       /\ response' = middleware(pathname, session)
  /\ UNCHANGED notMiddleware

NextMiddleware == MiddlewareRequest

SpecMiddleware == Init /\ [][NextMiddleware]_vars

TypeOK ==
  /\ loading \in BOOLEAN
  /\ pc \in {"hotels", "rooms", "bookings", "done"}
  /\ numberOfRooms \in 1..MaxRoomOptions
  /\ arrivalDate \in DateInputs \cup {InitArrival}
  /\ departureDate \in DateInputs \cup {InitDeparture}
  /\ numberOfNights \in Nat
  /\ now \in 0..MaxClock
  /\ edits \in 0..MaxEdits

\* ------------------------------------------------------------------ claims
\* A step of the arrival or of the departure input.
DateChanged == arrivalDate' # arrivalDate \/ departureDate' # departureDate

\* The last booking of the list after the step.
LastBooking == bookings'[Len(bookings')]

\* A step that appends a booking.
BookingAppended == ~loading /\ Len(bookings') = Len(bookings) + 1

\* C1: when the arrival or the departure date changes and both dates are
\* set, the stored nights value is the difference in days rounded up and
\* clamped to 0: 0 when departure is not after arrival, 1 when departure is
\* more than zero and at most one day after arrival.
C1_NightsOnDateChange ==
  [][ (DateChanged /\ arrivalDate' # EmptyDate /\ departureDate' # EmptyDate) =>
        LET diff == GetTime(departureDate') - GetTime(arrivalDate')
        IN  /\ numberOfNights' >= 0
            /\ (diff <= 0 => numberOfNights' = 0)
            /\ (diff > 0 /\ diff <= MsPerDay => numberOfNights' = 1)
            /\ (diff > 0 => /\ (numberOfNights' - 1) * MsPerDay < diff
                            /\ diff <= numberOfNights' * MsPerDay) ]_vars

\* C1 witness: the dates were changed to an inverted range, nights is 0.
C1_Witness ==
  /\ arrivalDate = InitArrival + 1
  /\ departureDate = InitArrival
  /\ numberOfNights = 0

\* C2: every change of the 'amount paid today' input sets remainingBalance
\* to max(0, amount - paidToday) for the amount of that moment; the stored
\* remainingBalance is never negative and is 0 whenever paidToday >= amount
\* at the change.
C2_RemainingBalance ==
  /\ [][ AmountPaidTodayChange =>
           LET amount == paymentData.amount
               paid == paymentData'.amountPaidToday
               balance == paymentData'.remainingBalance
           IN  /\ balance >= 0
               /\ (paid >= amount => balance = 0)
               /\ (paid < amount => balance + paid = amount) ]_vars
  /\ [](paymentData.remainingBalance >= 0)

\* C2 witness: 3000 was entered as paid today against the amount 2500.
C2_Witness ==
  /\ paymentData.amount = 2500
  /\ paymentData.amountPaidToday = 3000
  /\ paymentData.remainingBalance = 0

\* C3: in every state the displayed total is rate x nights x room count of
\* the current selection (rate 0 when no room resolves): it is the same in
\* both panels, equals the rate for one room and one night, doubles when any
\* one factor doubles, and is 0 whenever nights is 0.
C3_TotalLinear ==
  LET rate == SelectedRate
      total == RoomDetailsTotal
  IN  /\ total = ReviewTotal
      /\ (numberOfNights = 0 => total = 0)
      /\ (getSelectedRoom = 0 => total = 0)
      /\ (numberOfNights = 1 /\ numberOfRooms = 1 => total = rate)
      /\ computeTotal(2 * rate, numberOfNights, numberOfRooms) = 2 * total
      /\ computeTotal(rate, 2 * numberOfNights, numberOfRooms) = 2 * total
      /\ computeTotal(rate, numberOfNights, 2 * numberOfRooms) = 2 * total

\* C3 witness: nights is 0 for a room with a rate and a room count of 2.
C3_Witness ==
  /\ numberOfNights = 0
  /\ SelectedRate > 0
  /\ numberOfRooms = 2

C5_EndToEnd ==
  [][ ( /\ AmountPaidTodayChange
        /\ arrivalDate = InitArrival /\ departureDate = InitDeparture
        /\ SelectedRate = 250 /\ numberOfRooms = 2
        /\ paymentData'.amountPaidToday = 500 ) =>
      ( /\ numberOfNights = 5
        /\ RoomDetailsTotal = 2500
        /\ paymentData'.remainingBalance = 2000 ) ]_vars

\* C6: once loaded, the bookings list changes only by a confirm, which
\* appends one booking at the end and leaves the form alone; the bookings
\* already in the list keep their place and their value in every step.
C6_AppendOnly ==
  [][ ~loading =>
        \/ bookings' = bookings
        \/ /\ Len(bookings') = Len(bookings) + 1
           /\ SubSeq(bookings', 1, Len(bookings)) = bookings
           /\ formVars' = formVars
           /\ edits' = edits ]_vars

\* C6 witness: a loaded booking and a confirmed one are in the list, and the
\* name in the form was edited after the confirm.
C6_Witness ==
  /\ Len(bookings) = 2
  /\ bookings[1] = LoadedBooking
  /\ bookings[2].guest.fullName = InitGuest.fullName
  /\ guestData.fullName # InitGuest.fullName

\* C7 as stated: the booking appended by confirm holds the guest form data
\* field by field (arrival, departure and roomRate included), the selected
\* room, the stored room count and the payment form data.
C7_Verbatim ==
  [][ BookingAppended =>
        /\ LastBooking.guest = guestData
        /\ LastBooking.room = rooms[getSelectedRoom]
        /\ LastBooking.numberOfRooms = numberOfRooms
        /\ LastBooking.payment = paymentData ]_vars

\* C8 as stated: no two bookings of the list have the same id.
C8_UniqueIds ==
  \A i, j \in 1..Len(bookings) : i # j => bookings[i].id # bookings[j].id

\* computeNights of the specification: 0 for a missing date or a range that
\* is not positive.
computeNights(arrival, departure) ==
  IF arrival # EmptyDate /\ departure # EmptyDate /\ departure > arrival
    THEN departure - arrival
    ELSE 0

\* C9 as stated: after every change of a date input, a cleared date
\* included, the stored nights value is computeNights of the dates now in
\* the form.
C9_NightsFollowDates ==
  [][ DateChanged =>
        numberOfNights' = computeNights(arrivalDate', departureDate') ]_vars

\* C10 as stated: every booking in the list has numberOfRooms not greater
\* than the availableCount of its room.
C10_CountWithinAvailability ==
  \A i \in 1..Len(bookings) :
    bookings[i].numberOfRooms <= bookings[i].room.availableCount

\* C11: selecting a different room or a different hotel leaves the stored
\* room count as it is; the count is not clamped to the availableCount of
\* the newly selected room.
C11_SelectionKeepsCount ==
  [][ (selectedRoomId' # selectedRoomId \/ selectedHotelId' # selectedHotelId) =>
        numberOfRooms' = numberOfRooms ]_vars

\* C11 witness: room-2 with 3 rooms to sell was clicked while the count was
\* 10, and the count is still 10.
C11_Witness ==
  /\ selectedRoomId = "room-2"
  /\ numberOfRooms = MaxRoomOptions
  /\ SelectedAvailableCount < numberOfRooms

\* The payment record with the fields named in keep taken from the record
\* before the step.
PaymentKeeps(keep) == \A f \in keep : paymentData'[f] = paymentData[f]

\* C12: an edit of the payment amount changes the amount only, a click on a
\* payment method the method only, an edit of a payment date that date only;
\* amountPaidToday and remainingBalance keep their values in all of them.
C12_PaymentFrame ==
  [][ /\ paymentData'.amount # paymentData.amount =>
           PaymentKeeps(DOMAIN paymentData \ {"amount"})
      /\ paymentData'.method # paymentData.method =>
           PaymentKeeps(DOMAIN paymentData \ {"method"})
      /\ \A f \in PaymentDateFields :
           paymentData'[f] # paymentData[f] =>
             PaymentKeeps(DOMAIN paymentData \ {f}) ]_vars

\* C12 witness: the amount was raised to 2500 and the balance is still the
\* 750 computed for the amount 1250.
C12_Witness ==
  /\ paymentData.amount = 2500
  /\ paymentData.amountPaidToday = InitPaidToday
  /\ paymentData.remainingBalance = InitRemaining

\* C13 as stated: a booking assembled while the payment method is cash or
\* visa carries no remaining balance.
C13_BalanceForCreditOnly ==
  [][ BookingAppended =>
        (LastBooking.payment.method # "credit" =>
           LastBooking.payment.remainingBalance = 0) ]_vars

\* C14: confirm validates nothing: whenever the selected room resolves to a
\* loaded room, confirm can append a booking, whatever the guest and payment
\* fields hold (a blank name, nights 0, an amount that is not positive).
C14_ConfirmNoValidation ==
  (~loading /\ getSelectedRoom # 0 /\ Len(bookings) < MaxBookings) =>
    ENABLED (handleConfirmBooking /\ Len(bookings') = Len(bookings) + 1)

\* C14 witness: a booking was confirmed with a blank name and a negative
\* amount.
C14_Witness ==
  /\ Len(bookings) > 0
  /\ bookings[Len(bookings)].id[1] = "now"
  /\ bookings[Len(bookings)].guest.fullName = ""
  /\ bookings[Len(bookings)].payment.amount < 0

\* A selectable room of the selected hotel other than the selected room is
\* shown.
OtherRoomShown ==
  /\ selectedHotelId # ""
  /\ \E i \in getAvailableRooms :
       isSelectable(rooms[i]) /\ rooms[i].id # selectedRoomId

\* C15: no step gates another: once loaded, the date, guest, payment method
\* and payment amount edits and confirm are enabled in every state, and the
\* hotel and room selections wherever there is another hotel or room to
\* select, whatever was edited before.
C15_NoStepGating ==
  (~loading /\ edits < MaxEdits) =>
    /\ ENABLED ArrivalChange
    /\ ENABLED DepartureChange
    /\ ENABLED GuestTextChange
    /\ ENABLED PaymentMethodClick
    /\ ENABLED PaymentAmountChange
    /\ (Len(hotels) > 0 => ENABLED HotelChange)
    /\ (OtherRoomShown => ENABLED RoomClick)
    /\ (Len(bookings) < MaxBookings => ENABLED handleConfirmBooking)

\* C15 witness: a booking was confirmed with the payment edited and the
\* guest data never touched.
C15_Witness ==
  /\ Len(bookings) > 0
  /\ bookings[Len(bookings)].id[1] = "now"
  /\ bookings[Len(bookings)].payment.method # InitPayment.method
  /\ guestData = InitGuest
  /\ edits = 1

\* C16: once loaded, no step changes the rooms list or the hotels list:
\* room selection, room count and confirm leave every rate, status and
\* availableCount as loaded.
C16_RoomsReadOnly ==
  [][ ~loading => (rooms' = rooms /\ hotels' = hotels) ]_vars

\* C16 witness: 10 rooms of room-1 were booked and its availableCount is
\* still 12.
C16_Witness ==
  /\ Len(bookings) > 0
  /\ bookings[Len(bookings)].id[1] = "now"
  /\ bookings[Len(bookings)].numberOfRooms = MaxRoomOptions
  /\ getSelectedRoom # 0
  /\ rooms[getSelectedRoom] = bookings[Len(bookings)].room
  /\ SelectedAvailableCount > MaxRoomOptions

\* C19: when the selected room id resolves to no loaded room, confirm
\* changes nothing: not the bookings list, not the form, not any other
\* state.
C19_UnresolvedRoomNoBooking ==
  (~loading /\ getSelectedRoom = 0) =>
    ~ ENABLED (handleConfirmBooking /\ vars' # vars)

\* C19 witness: rooms were loaded, none has the default id 'room-1', and
\* confirm can be pressed.
C19_Witness ==
  /\ ~loading
  /\ Len(rooms) > 0
  /\ getSelectedRoom = 0
  /\ ENABLED handleConfirmBooking

\* C20 as stated: the selected room, when it resolves, is a room of the
\* selected hotel and is selectable.
C20_RoomOfSelectedHotel ==
  (~loading /\ getSelectedRoom # 0) =>
    /\ rooms[getSelectedRoom].hotelId = selectedHotelId
    /\ isSelectable(rooms[getSelectedRoom])

\* The list a fetch sets, by the name of the fetch.
BookingList(f) ==
  CASE f = "hotels" -> hotels [] f = "rooms" -> rooms [] f = "bookings" -> bookings

ResList(f) ==
  CASE f = "hotels" -> resHotels [] f = "rooms" -> resRooms
    [] f = "bookings" -> resBookings

GuestsList(f) ==
  CASE f = "hotels" -> guestsHotels [] f = "bookings" -> guestsBookings

\* C17: a failed fetch of hotels, rooms or bookings is logged and nothing
\* more: the page has left the loading state and the list whose fetch
\* failed is empty, on the Booking, Reservations and Guests pages; on the
\* Guests page the guest list is empty as well.
C17_FetchFailureDegrades ==
  /\ loggedError # "none" =>
       (~loading /\ BookingList(loggedError) = << >>)
  /\ resLoggedError # "none" =>
       (~resLoading /\ ResList(resLoggedError) = << >>)
  /\ guestsLoggedError # "none" =>
       (~guestsLoading /\ GuestsList(guestsLoggedError) = << >> /\ guests = << >>)

\* C17 witness: the rooms fetch failed on the Booking page after the hotels
\* were loaded, the bookings fetch failed on the two list pages.
C17_Witness ==
  /\ loggedError = "rooms" /\ hotels # << >> /\ rooms = << >> /\ ~loading
  /\ resLoggedError = "bookings" /\ resRooms # << >> /\ ~resLoading
  /\ guestsLoggedError = "bookings" /\ guestsHotels # << >> /\ guests = << >>

\* C18: for every user, the fifth failed password check in a row sets
\* lockedUntil 15 minutes ahead; while lockedUntil is in the future every
\* authorize for the user returns null and leaves the user record as it is,
\* whatever the password; an authorize that returns the user has set
\* failedLoginAttempts to 0 and lockedUntil to null.
C18_BruteForceLock ==
  [][ \A u \in Accounts :
        /\ (failedChecks'[u] = 5 /\ failedChecks[u] = 4) =>
             lockedUntil'[u] = << authNow + LockMs >>
        /\ (isLocked(u) /\ authorize(u)) =>
             /\ lastResult' = "null"
             /\ failedLoginAttempts'[u] = failedLoginAttempts[u]
             /\ lockedUntil'[u] = lockedUntil[u]
        /\ (authorize(u) /\ lastResult' = u) =>
             (failedLoginAttempts'[u] = 0 /\ lockedUntil'[u] = NoDate) ]_vars

\* C18 witness: five failed checks in a row for a user, the user locked,
\* 10 minutes later an attempt rejected, while the other user logged in.
C18_Witness ==
  \E u \in Accounts :
    /\ failedChecks[u] = 5
    /\ isLocked(u)
    /\ lockedUntil[u] = << LockMs >>
    /\ authNow = 2 * TickMs
    /\ lastResult = "null"
    /\ \E v \in Accounts \ {u} : failedLoginAttempts[v] = 0 /\ failedChecks[v] = 0

\* The status the bookings list holds for a booking id.
StatusOf(list, id) == list[CHOOSE i \in 1..Len(list) : list[i].id = id].status

\* C21 as stated: once the alert 'Reservation ... has been cancelled' is
\* shown for a row, the booking of that row has the status 'cancelled' in
\* the bookings list and the cancelled counter counts it.
C21_CancelSetsStatus ==
  [][ resAlert' # resAlert =>
        /\ StatusOf(resBookings', resAlert'[2]) = "cancelled"
        /\ stats'.cancelled >= 1 ]_vars

\* The bookings list after the status newStatus is given to the bookings
\* whose ids are selected and to no other.
C22_Expected(newStatus) ==
  [i \in 1..Len(resBookings) |->
     IF \E k \in 1..Len(selectedBookings) : selectedBookings[k] = resBookings[i].id
       THEN [resBookings[i] EXCEPT !.status = newStatus]
       ELSE resBookings[i]]

\* C22: a bulk Confirm or Cancel gives the chosen status to exactly the
\* bookings whose ids are selected, leaves every other booking and every
\* other field as it was, keeps the length and the order of the list and
\* empties the selection; nothing else changes the loaded bookings list.
C22_BulkStatusChange ==
  [][ (~resLoading /\ (BulkStatusClick \/ resBookings' # resBookings)) =>
        /\ Len(selectedBookings) > 0
        /\ \E newStatus \in {"confirmed", "cancelled"} :
             resBookings' = C22_Expected(newStatus)
        /\ selectedBookings' = << >> ]_vars

\* C22 witness: the ten rows of page 1 were selected and cancelled in bulk,
\* the eleventh booking kept its status.
C22_Witness ==
  /\ ~resLoading
  /\ selectedBookings = << >>
  /\ CountStatus("cancelled") = itemsPerPage
  /\ \E i \in 1..Len(resBookings) :
       resBookings[i].status = ReservationsFile[i].status
         /\ resBookings[i].status # "cancelled"

\* C23 as stated: the current page is between 1 and max(1, totalPages), and
\* a filtered list that is not empty is never shown as an empty page.
C23_PageWithinRange ==
  ~resLoading =>
    /\ currentPage >= 1
    /\ currentPage <= (IF totalPages > 1 THEN totalPages ELSE 1)
    /\ Len(filteredAndSortedBookings) > 0 => Len(paginatedBookings) > 0

\* C24 as stated, for a page that lists rows: the header checkbox is shown
\* checked exactly when every listed row is selected, and every selected
\* id is the id of a listed row.
C24_SelectAllMeansAllListed ==
  (~resLoading /\ viewMode = "table" /\ Len(paginatedBookings) > 0) =>
    LET listed == {paginatedBookings[i].id : i \in 1..Len(paginatedBookings)}
        selected == {selectedBookings[i] : i \in 1..Len(selectedBookings)}
    IN  /\ selectAllChecked <=> listed \subseteq selected
        /\ selected \subseteq listed

\* The text is found in a string: some characters, the text, some more.
C25_Contains(str, text) ==
  \E from \in 1..(Len(str) + 1), to \in 0..Len(str) :
    /\ to - from + 1 = Len(text)
    /\ \A k \in 1..Len(text) : str[from + k - 1] = text[k]

\* The same letter, in upper or in lower case.
C25_SameLetter(c, d) ==
  \/ c = d
  \/ \E k \in 1..26 : {c, d} = {UpperCase[k], LowerCase[k]}

\* The text is found in a string whatever the case of the letters.
C25_ContainsAnyCase(str, text) ==
  \E from \in 1..(Len(str) + 1), to \in 0..Len(str) :
    /\ to - from + 1 = Len(text)
    /\ \A k \in 1..Len(text) : C25_SameLetter(str[from + k - 1], text[k])

\* A booking satisfies every active filter.
C25_Satisfies(b) ==
  /\ statusFilter # "" => b.status = statusFilter
  /\ hotelFilter # "" => b.room.hotelId = hotelFilter
  /\ dateRangeFilter.start # EmptyDate => b.guest.arrival >= dateRangeFilter.start
  /\ dateRangeFilter.end # EmptyDate => b.guest.departure <= dateRangeFilter.end
  /\ searchQuery # << >> =>
       \/ C25_ContainsAnyCase(b.guest.fullName, searchQuery)
       \/ C25_ContainsAnyCase(b.resId, searchQuery)
       \/ C25_Contains(b.guest.telephone, searchQuery)

\* C25: the list holds exactly the bookings that satisfy every active filter
\* (the search text found in the name or the reservation id whatever the
\* case, or in the telephone), each once; and a step that changes a filter,
\* the search, the sort or the page leaves the bookings list and the
\* statistics as they were.
C25_ListIsFiltered ==
  /\ [](~resLoading =>
          LET list == filteredAndSortedBookings
          IN  /\ Range(list) = {b \in Range(resBookings) : C25_Satisfies(b)}
              /\ Cardinality(Range(list)) = Len(list))
  /\ [][ << statusFilter, hotelFilter, dateRangeFilter, searchQuery, sortBy,
            sortOrder, currentPage >>' #
         << statusFilter, hotelFilter, dateRangeFilter, searchQuery, sortBy,
            sortOrder, currentPage >>
           => (resBookings' = resBookings /\ stats' = stats) ]_vars

\* C25 witness: a status filter and a search in upper case are active
\* together and the list holds the one booking that satisfies both.
C25_Witness ==
  /\ ~resLoading
  /\ statusFilter = "confirmed"
  /\ searchQuery = << "S", "A" >>
  /\ Len(filteredAndSortedBookings) = 1
  /\ filteredAndSortedBookings[1].guest.fullName = << "S", "a", "r", "a" >>

\* C26: every selected id is the id of a hotel of the list, whatever was
\* added, deleted, selected and filtered; and a submit of the add form
\* changes the list only with name, code and alternative name all filled
\* in, and then by one hotel at the end.
C26_NoDanglingSelection ==
  /\ [](\A k \in 1..Len(selectedHotels) :
          \E i \in 1..Len(hotelList) : hotelList[i].id = selectedHotels[k])
  /\ [][ Len(hotelList') > Len(hotelList) =>
           /\ hotelName # << >> /\ hotelCode # << >> /\ altHotelName # << >>
           /\ Len(hotelList') = Len(hotelList) + 1
           /\ SubSeq(hotelList', 1, Len(hotelList)) = hotelList ]_vars
  /\ [][ (handleAddHotel /\ (hotelName = << >> \/ hotelCode = << >>
                               \/ altHotelName = << >>))
           => hotelList' = hotelList ]_vars

\* C26 witness: a hotel was added, selected and deleted, and nothing is
\* selected.
C26_Witness ==
  /\ hotelEdits = 3
  /\ hotelNow = 1
  /\ hotelList = InitHotels
  /\ selectedHotels = << >>

\* An operation of the wizard.
C27_WizardOperation ==
  \/ HotelChange
  \/ RoomClick
  \/ NumberOfRoomsChange
  \/ ArrivalChange
  \/ DepartureChange
  \/ AlternativePriceChange
  \/ GuestTextChange
  \/ PaymentMethodClick
  \/ PaymentDateChange
  \/ PaymentAmountChange
  \/ AmountPaidTodayChange
  \/ handleConfirmBooking

C27_IsPrefix(s, t) == Len(s) <= Len(t) /\ SubSeq(t, 1, Len(s)) = s

\* C27: with every started fetch resolving or rejecting, each of the three
\* pages ends with loading false and stays so; a page that is not loading
\* never loads again; no operation of the wizard is possible while it loads;
\* and on the loaded wizard every step keeps the bookings there are, so the
\* load writes no list over a booking that confirm appended.
C27_LoadingEnds ==
  /\ <>[](~loading /\ ~resLoading /\ ~guestsLoading)
  /\ [][ /\ (~loading => ~loading')
         /\ (~resLoading => ~resLoading')
         /\ (~guestsLoading => ~guestsLoading') ]_vars
  /\ [](loading => ~ENABLED C27_WizardOperation)
  /\ [][ ~loading => C27_IsPrefix(bookings, bookings') ]_vars

\* C27 witness: every page has loaded and confirm has appended a booking
\* to the loaded ones.
C27_Witness ==
  /\ ~loading /\ ~resLoading /\ ~guestsLoading
  /\ loggedError = "none"
  /\ Len(bookings) = 2
  /\ bookings[1] = LoadedBooking
  /\ bookings[2].id = << "now", 1 >>

\* C28: also with logins of one account under way together, the stored
\* counter is the number of failed password checks since the last
\* successful login, and an account that is not locked has had fewer than
\* 5 wrong passwords checked since then.
C28_CounterCountsFailedChecks ==
  \A u \in Accounts :
    /\ failedLoginAttempts[u] = failedChecks[u]
    /\ lockedUntil[u] = NoDate => failedChecks[u] < 5

\* A PUT has answered in the step.
C29_Answered == putResponse' # << >> /\ putResponse' # putResponse

C30_Under(pathname, route) ==
  pathname = route \/ startsWith(pathname, route \o << "/" >>)

C30_UnderAdmin(pathname) == C30_Under(pathname, << "/", "a", "d", "m", "i", "n" >>)

C30_UnderProtected(pathname) ==
  \/ C30_Under(pathname, << "/", "d", "a", "s", "h", "b", "o", "a", "r", "d" >>)
  \/ C30_Under(pathname, << "/", "p", "r", "o", "f", "i", "l", "e" >>)
  \/ C30_Under(pathname, << "/", "s", "e", "t", "t", "i", "n", "g", "s" >>)

====
